---- MODULE Spec2Model ----
(***************************************************************************)
(* Model of src/src/curveBoolean.js: the Fabric <-> Paper.js adapter       *)
(* (fabricPathToPaperPath, paperPathToFabricPath) and the boolean union    *)
(* handler doCurveBooleanUnion.                                            *)
(*                                                                         *)
(* Coordinates are integers counting 1/Px of a pixel, so that the halvings *)
(* of Paper's curve subdivision, the thirds of the quadratic elevation and *)
(* the halving of the bounding-box centre are exact on the grid used.      *)
(***************************************************************************)
EXTENDS Integers, Sequences, FiniteSets, TLC

\* ------------------------------------------------------------------ units
\* One pixel, and the grid step G (half a pixel) of the host coordinates.
Px == 6 * 128
G == Px \div 2

\* the null a function returns instead of an engine item
NullPath == [className |-> "null", segments |-> <<>>, closed |-> FALSE, children |-> <<>>]

Max(a, b) == IF a > b THEN a ELSE b

\* ------------------------------------------------------------ engine data
ZeroPt == <<0, 0>>
\* Point#isZero
isZero(v) == v[1] = 0 /\ v[2] = 0
\* new ps.Segment(point, handleIn, handleOut); missing handles are zero
Segment(pt, hIn, hOut) == [point |-> pt, handleIn |-> hIn, handleOut |-> hOut]
\* a paper.Path item: its segments and its closed flag
PaperPath(segs, cl) ==
    [className |-> "Path", segments |-> segs, closed |-> cl, children |-> <<>>]
\* a paper.CompoundPath or paper.Group item: only its children matter here
PaperContainer(cls, kids) ==
    [className |-> cls, segments |-> <<>>, closed |-> FALSE, children |-> kids]

\* ------------------------------------------------------- Transform Bridge
\* fabric.util.transformPoint(pt, m) with m = [a, b, c, d, e, f]
transformPoint(m, x, y) ==
    <<m[1] * x + m[3] * y + m[5], m[2] * x + m[4] * y + m[6]>>

\* transformPointUsingCanvas(obj, x, y, canvas): the object's own matrix
\* (obj.calcTransformMatrix()) only; the viewport transform is not applied.
transformPointUsingCanvas(obj, x, y) == transformPoint(obj.matrix, x, y)

\* ---------------------------------------------------------- Path#flatten
\* p.flatten(0) is Paper's Path#flatten(flatness): "flatness || 0.25" makes
\* the argument 0 the default 0.25, and every curve of the path is replaced
\* by straight parts (PathFlattener with maxRecursion 256, ignoreStraight).
\* A curve is <<p0, c1, c2, p3>> in absolute coordinates (Curve.getValues).
getValues(s1, s2) ==
    << s1.point,
       <<s1.point[1] + s1.handleOut[1], s1.point[2] + s1.handleOut[2]>>,
       <<s2.point[1] + s2.handleIn[1], s2.point[2] + s2.handleIn[2]>>,
       s2.point >>

Cross(a, b) == a[1] * b[2] - a[2] * b[1]
Dot(a, b) == a[1] * b[1] + a[2] * b[2]

\* Curve.isStraight(v): zero handles, or handles lying on the chord
isStraight(v) ==
    LET h1 == <<v[2][1] - v[1][1], v[2][2] - v[1][2]>>
        h2 == <<v[3][1] - v[4][1], v[3][2] - v[4][2]>>
        d  == <<v[4][1] - v[1][1], v[4][2] - v[1][2]>>
    IN  IF isZero(h1) /\ isZero(h2) THEN TRUE
        ELSE IF isZero(d) THEN FALSE
        ELSE /\ Cross(d, h1) = 0 /\ Cross(d, h2) = 0
             /\ Dot(d, h1) >= 0 /\ Dot(d, h1) <= Dot(d, d)
             /\ Dot(d, h2) <= 0 /\ Dot(d, h2) >= -Dot(d, d)

\* Curve.isFlatEnough(v, 0.25): max(ux^2,vx^2) + max(uy^2,vy^2) <= 16 * 0.25^2
isFlatEnough(v) ==
    LET ux == 3 * v[2][1] - 2 * v[1][1] - v[4][1]
        uy == 3 * v[2][2] - 2 * v[1][2] - v[4][2]
        vx == 3 * v[3][1] - 2 * v[4][1] - v[1][1]
        vy == 3 * v[3][2] - 2 * v[4][2] - v[1][2]
    IN  Max(ux * ux, vx * vx) + Max(uy * uy, vy * vy) <= Px * Px

Mid(a, b) == <<(a[1] + b[1]) \div 2, (a[2] + b[2]) \div 2>>

\* Curve.subdivide(v, 0.5): de Casteljau, the two halves
subdivide(v) ==
    LET p3 == Mid(v[1], v[2])
        p4 == Mid(v[2], v[3])
        p5 == Mid(v[3], v[4])
        p6 == Mid(p3, p4)
        p7 == Mid(p4, p5)
        p8 == Mid(p6, p7)
    IN  << <<v[1], p3, p6, p8>>, <<p8, p7, p5, v[4]>> >>

\* PathFlattener.computeParts: span is 256 * (t2 - t1), minSpan is 1/256;
\* a part of length 0 is dropped.
RECURSIVE computeParts(_, _)
computeParts(v, span) ==
    IF span > 1 /\ ~isStraight(v) /\ ~isFlatEnough(v)
    THEN LET halves == subdivide(v)
         IN  computeParts(halves[1], span \div 2) \o computeParts(halves[2], span \div 2)
    ELSE IF v[4] # v[1] THEN <<v>> ELSE <<>>

\* the curves PathFlattener walks: consecutive segments, then the closing one
FlattenCurves(path) ==
    LET segs == path.segments
        n == Len(segs)
    IN  [k \in 1..(n - 1) |-> getValues(segs[k], segs[k + 1])]
        \o (IF path.closed THEN <<getValues(segs[n], segs[1])>> ELSE <<>>)

RECURSIVE FlattenParts(_, _)
FlattenParts(curves, k) ==
    IF k > Len(curves) THEN <<>>
    ELSE computeParts(curves[k], 256) \o FlattenParts(curves, k + 1)

\* Path#flatten: one handle-less segment per part, plus the last point of an
\* open path. The path must not be closed and empty: see WellFormed.
flatten(path) ==
    LET parts == FlattenParts(FlattenCurves(path), 1)
        n == Len(path.segments)
        starts == [k \in 1..Len(parts) |-> Segment(parts[k][1], ZeroPt, ZeroPt)]
    IN  PaperPath(
            IF ~path.closed /\ Len(parts) > 0
            THEN Append(starts, Segment(path.segments[n].point, ZeroPt, ZeroPt))
            ELSE starts,
            path.closed)

\* ----------------------------------------------------------- Path Importer
\* mutant: one third instead of two
OneThird(d) == d \div 3

\* (2 / 3) * d of lines 112-115
TwoThirds(d) == (2 * d) \div 3

\* one pass of the loop body of fabricPathToPaperPath on command cmd; p is
\* the paper.Path built so far. cmd is the Fabric command ['C', x1, ...].
importCommand(obj, p, cmd) ==
    LET type == cmd[1]
        segs == p.segments
        n == Len(segs)
    IN  IF type = "M" \/ type = "L"
        THEN [p EXCEPT !.segments =
                 Append(segs, Segment(transformPointUsingCanvas(obj, cmd[2], cmd[3]), ZeroPt, ZeroPt))]
        ELSE IF type = "C"
        THEN LET cp1t == transformPointUsingCanvas(obj, cmd[2], cmd[3])
                 cp2t == transformPointUsingCanvas(obj, cmd[4], cmd[5])
                 pt == transformPointUsingCanvas(obj, cmd[6], cmd[7])
                 withOut == IF n > 0
                            THEN [segs EXCEPT ![n].handleOut =
                                     <<cp1t[1] - segs[n].point[1], cp1t[2] - segs[n].point[2]>>]
                            ELSE segs
             IN  [p EXCEPT !.segments =
                     Append(withOut, Segment(pt, <<cp2t[1] - pt[1], cp2t[2] - pt[2]>>, ZeroPt))]
        ELSE IF type = "Q"
        THEN LET cpt == transformPointUsingCanvas(obj, cmd[2], cmd[3])
                 pt == transformPointUsingCanvas(obj, cmd[4], cmd[5])
             IN  IF n = 0
                 THEN [p EXCEPT !.segments = Append(segs, Segment(pt, ZeroPt, ZeroPt))]
                 ELSE LET prev == segs[n].point
                          cp1x == prev[1] + TwoThirds(cpt[1] - prev[1])
                          cp1y == prev[2] + TwoThirds(cpt[2] - prev[2])
                          cp2x == pt[1] + TwoThirds(cpt[1] - pt[1])
                          cp2y == pt[2] + TwoThirds(cpt[2] - pt[2])
                          withOut == [segs EXCEPT ![n].handleOut = <<cp1x - prev[1], cp1y - prev[2]>>]
                      IN  [p EXCEPT !.segments =
                              Append(withOut, Segment(pt, <<cp2x - pt[1], cp2y - pt[2]>>, ZeroPt))]
        ELSE IF type = "Z" \/ type = "z"
        THEN [p EXCEPT !.closed = TRUE]
        ELSE p

\* the for loop of fabricPathToPaperPath from command k on
RECURSIVE importCommands(_, _, _)
importCommands(obj, p, k) ==
    IF k > Len(obj.path) THEN p
    ELSE importCommands(obj, importCommand(obj, p, obj.path[k]), k + 1)

\* obj.pathKind tells what obj.path is: "array" (an array of commands),
\* "object" (truthy but no array: text laid on a path) or "none" (absent).
IsArray(obj) == obj.pathKind = "array"

\* the curve as built by the loop, before the final flatten
importedSegments(obj) == importCommands(obj, PaperPath(<<>>, FALSE), 1)

\* fabricPathToPaperPath(obj, canvas): Null, or the flattened paper.Path.
\* (The paper.Path of line 65 is created in either case: see ImportShape.)
fabricPathToPaperPath(obj) ==
    IF ~IsArray(obj) THEN NullPath
    ELSE flatten(importedSegments(obj))

\* ----------------------------------------------------------- Path Exporter
\* the paper.Path items the exporter walks: the item itself, or those
\* children of a CompoundPath / Group that are paper.Path instances
exportItems(paperPath) ==
    IF paperPath.className = "Path" THEN <<paperPath>>
    ELSE SelectSeq(paperPath.children, LAMBDA child : child.className = "Path")

\* mutant: a CubicTo only when both handles are set
segmentCommandBothHandles(prev, cur) ==
    IF ~isZero(prev.handleOut) /\ ~isZero(cur.handleIn)
    THEN <<"C", prev.point[1] + prev.handleOut[1], prev.point[2] + prev.handleOut[2],
           cur.point[1] + cur.handleIn[1], cur.point[2] + cur.handleIn[2],
           cur.point[1], cur.point[2]>>
    ELSE <<"L", cur.point[1], cur.point[2]>>

\* lines 159-173: the command for the segment pair (prev, cur)
segmentCommand(prev, cur) ==
    LET hasPrevOut == ~isZero(prev.handleOut)
        hasCurIn == ~isZero(cur.handleIn)
    IN  IF hasPrevOut \/ hasCurIn
        THEN <<"C", prev.point[1] + prev.handleOut[1], prev.point[2] + prev.handleOut[2],
               cur.point[1] + cur.handleIn[1], cur.point[2] + cur.handleIn[2],
               cur.point[1], cur.point[2]>>
        ELSE <<"L", cur.point[1], cur.point[2]>>

\* the commands of one item: M, then L or C per further segment, then Z
RECURSIVE itemCommands(_, _)
itemCommands(item, k) ==
    LET segments == item.segments
    IN  IF Len(segments) = 0 THEN <<>>
        ELSE IF k = 1
        THEN <<<<"M", segments[1].point[1], segments[1].point[2]>>>> \o itemCommands(item, 2)
        ELSE IF k > Len(segments)
        THEN (IF item.closed THEN <<<<"Z">>>> ELSE <<>>)
        ELSE <<segmentCommand(segments[k - 1], segments[k])>> \o itemCommands(item, k + 1)

RECURSIVE combinedPathData(_, _)
combinedPathData(items, k) ==
    IF k > Len(items) THEN <<>>
    ELSE itemCommands(items[k], 1) \o combinedPathData(items, k + 1)

\* every x (resp. y) the bounding-box loop reads: cmd[i], cmd[i + 1] for the
\* source's i = 1, 3, ... (the source counts from 0, the tuples here from 1)
CoordsX(data) == UNION {{data[c][k] : k \in {j \in 2..Len(data[c]) : j % 2 = 0}} : c \in DOMAIN data}
CoordsY(data) == UNION {{data[c][k] : k \in {j \in 3..Len(data[c]) : j % 2 = 1}} : c \in DOMAIN data}
SetMin(S) == CHOOSE x \in S : \A y \in S : x <= y
SetMax(S) == CHOOSE x \in S : \A y \in S : x >= y

\* mutant: the box of the end points of the commands only
boundingBoxOfAnchors(data) ==
    LET pts == {c \in DOMAIN data : Len(data[c]) > 1}
        xs == {data[c][Len(data[c]) - 1] : c \in pts}
        ys == {data[c][Len(data[c])] : c \in pts}
    IN  [minX |-> SetMin(xs), minY |-> SetMin(ys), maxX |-> SetMax(xs), maxY |-> SetMax(ys)]

\* the bounding box of the path data; with no finite point, a point at 0
boundingBox(data) ==
    LET xs == CoordsX(data)
        ys == CoordsY(data)
        minX == IF xs = {} THEN 0 ELSE SetMin(xs)
        minY == IF ys = {} THEN 0 ELSE SetMin(ys)
    IN  [minX |-> minX, minY |-> minY,
         maxX |-> IF xs = {} THEN minX ELSE SetMax(xs),
         maxY |-> IF ys = {} THEN minY ELSE SetMax(ys)]

\* one command shifted by (-cx, -cy); Z is copied
shiftCommand(cmd, cx, cy) ==
    IF cmd[1] = "Z" \/ cmd[1] = "z" THEN cmd
    ELSE [k \in 1..Len(cmd) |->
             IF k = 1 THEN cmd[1]
             ELSE IF k % 2 = 0 THEN cmd[k] - cx ELSE cmd[k] - cy]

NullConverted == [isNull |-> TRUE, fabricPath |-> <<>>, tx |-> 0, ty |-> 0]

\* mutant: path data is returned also when it is empty
paperPathToFabricPathNeverNull(paperPath) ==
    [isNull |-> FALSE, fabricPath |-> combinedPathData(exportItems(paperPath), 1), tx |-> 0, ty |-> 0]

\* paperPathToFabricPath(paperPath): NullConverted, or the recentred path
\* data (the fabric.Path's commands) with the centre (tx, ty)
paperPathToFabricPath(paperPath) ==
    LET items == exportItems(paperPath)
        data == combinedPathData(items, 1)
        box == boundingBox(data)
        cx == (box.minX + box.maxX) \div 2
        cy == (box.minY + box.maxY) \div 2
    IN  IF Len(items) = 0 \/ Len(data) = 0 THEN NullConverted
        ELSE [isNull |-> FALSE,
              fabricPath |-> [c \in 1..Len(data) |-> shiftCommand(data[c], cx, cy)],
              tx |-> cx, ty |-> cy]

\* --------------------------------------------------------- Shape Normalizer
\* fabric.Path(pathData, {left, top, scaleX, scaleY, angle, originX, originY}):
\* the placement attributes are copied, so the new path has the placement
\* matrix of the primitive it was made from.
fabricPath(obj, pathData) == [obj EXCEPT !.pathKind = "array", !.path = pathData]

\* mutant: every point list is closed
pointsToPathDataClosed(obj) ==
    [k \in 1..Len(obj.points) |->
        <<(IF k = 1 THEN "M" ELSE "L"), obj.points[k][1], obj.points[k][2]>>]
    \o <<<<"Z">>>>

\* lines 259-264: M(p0) L(p1) ... L(pn), and Z for a polygon
pointsToPathData(obj) ==
    [k \in 1..Len(obj.points) |->
        <<(IF k = 1 THEN "M" ELSE "L"), obj.points[k][1], obj.points[k][2]>>]
    \o (IF obj.type = "polygon" THEN <<<<"Z">>>> ELSE <<>>)

\* mutant: the corners are taken from the top left corner whatever the origin
rectToPathDataFromCorner(obj) ==
    << <<"M", 0, 0>>, <<"L", obj.width, 0>>, <<"L", obj.width, obj.height>>,
       <<"L", 0, obj.height>>, <<"Z">> >>

\* lines 276-287: the rectangle's corners relative to its origin
rectToPathData(obj) ==
    LET w == obj.width
        h == obj.height
        ox == IF obj.originX = "center" THEN w \div 2 ELSE (IF obj.originX = "right" THEN w ELSE 0)
        oy == IF obj.originY = "center" THEN h \div 2 ELSE (IF obj.originY = "bottom" THEN h ELSE 0)
    IN  << <<"M", -ox, -oy>>, <<"L", w - ox, -oy>>, <<"L", w - ox, h - oy>>,
           <<"L", -ox, h - oy>>, <<"Z">> >>

\* the branch of lines 256-301 an object takes
normalizeKind(obj) ==
    IF obj.pathKind # "none" THEN "path"
    ELSE IF obj.hasPoints THEN "points"
    ELSE IF obj.type = "rect" \/ (obj.width # 0 /\ obj.height # 0) THEN "rect"
    ELSE "unsupported"

\* sourceObj of lines 255-302 (for a supported object)
sourceObj(obj) ==
    IF normalizeKind(obj) = "points" THEN fabricPath(obj, pointsToPathData(obj))
    ELSE IF normalizeKind(obj) = "rect" THEN fabricPath(obj, rectToPathData(obj))
    ELSE obj

\* ------------------------------------------------------------ host canvas
Identity == <<1, 0, 0, 1, 0, 0>>
Translate(tx, ty) == <<1, 0, 0, 1, tx, ty>>

\* the four style attributes line 337 reads (opacity in percent)
Style(fill, stroke, strokeWidth, opacity) ==
    [fill |-> fill, stroke |-> stroke, strokeWidth |-> strokeWidth, opacity |-> opacity]
NoStyle == Style("none", "none", 0, 0)

HostObject(type, pathKind, path, hasPoints, points, w, h, ox, oy, m, style) ==
    [type |-> type, pathKind |-> pathKind, path |-> path, hasPoints |-> hasPoints,
     points |-> points, width |-> w, height |-> h, originX |-> ox, originY |-> oy,
     matrix |-> m, style |-> style]

\* The objects on the canvas when the handler is called: a curved path, a
\* rectangle, a polygon, a text laid on a path (its path is no array), a path
\* with no commands, a line of zero width, and a circle.
Canvas ==
    [o1 |-> HostObject("path", "array",
                << <<"M", 0, 0>>, <<"C", 0, G, G, G, G, 0>>, <<"Z">> >>,
                FALSE, <<>>, G, G, "left", "top", Identity, Style("red", "black", 1, 100)),
     o2 |-> HostObject("rect", "none", <<>>, FALSE, <<>>, 2 * G, G, "center", "center",
                Translate(G, G), Style("red", "blue", 1, 100)),
     o3 |-> HostObject("polygon", "none", <<>>, TRUE, << <<0, 0>>, <<G, 0>>, <<0, G>> >>,
                G, G, "left", "top", Translate(2 * G, 0), Style("green", "black", 2, 100)),
     o4 |-> HostObject("text", "object", <<>>, FALSE, <<>>, G, G, "left", "top", Identity, Style("green", "black", 2, 50)),
     o5 |-> HostObject("path", "array", <<>>, FALSE, <<>>, 0, 0, "left", "top", Identity, Style("blue", "black", 1, 50)),
     o6 |-> HostObject("line", "none", <<>>, FALSE, <<>>, 0, G, "left", "top", Identity, Style("none", "black", 3, 100)),
     o7 |-> HostObject("circle", "none", <<>>, FALSE, <<>>, G, G, "left", "top",
                Translate(0, G), Style("red", "none", 0, 100))]

ObjIds == DOMAIN Canvas
InitObjects == <<"o1", "o2", "o3", "o4", "o5", "o6", "o7">>

\* the longest selection explored
MaxSel == 3

\* canvas.getActiveObjects(): any sequence of distinct canvas objects
Selections ==
    UNION {{s \in [1..n -> ObjIds] : \A a, b \in 1..n : a # b => s[a] # s[b]} : n \in 0..MaxSel}

\* what resultPaperPath.unite(next) can return: the boolean operation is the
\* engine's own, so any of a closed path, a compound path, a group holding a
\* path and a compound path, or an empty path.
Quad == PaperPath(<< Segment(<<0, 0>>, ZeroPt, ZeroPt), Segment(<<2 * G, 0>>, ZeroPt, ZeroPt),
                     Segment(<<2 * G, 2 * G>>, ZeroPt, <<0, G>>), Segment(<<0, 2 * G>>, <<G, 0>>, ZeroPt) >>, TRUE)
Tri == PaperPath(<< Segment(<<4 * G, 0>>, ZeroPt, ZeroPt), Segment(<<6 * G, 0>>, ZeroPt, ZeroPt),
                    Segment(<<4 * G, 2 * G>>, ZeroPt, ZeroPt) >>, TRUE)
UniteResults ==
    { Quad,
      PaperContainer("CompoundPath", <<Quad, Tri>>),
      PaperContainer("Group", <<Quad, PaperContainer("CompoundPath", <<Tri>>)>>),
      PaperPath(<<>>, FALSE) }

\* ------------------------------------------------------------------ state
VARIABLES
    pc,               \* where doCurveBooleanUnion stands: "idle" before the call, "done" after it
    selected,         \* canvas.getActiveObjects()
    i,                \* the loop index of line 251 (counted from 1)
    resultPaperPath,  \* the accumulator: an engine item id, 0 for null
    next,             \* the curve imported in this iteration (p / next), 0 for none
    united,           \* the result of unite before line 313, 0 for none
    project,          \* the engine items created by the call, by id
    removed,          \* the ids on which remove() was called
    calls,            \* history: the unite calls made, as [acc, next, result] (result 0: it threw)
    curves,           \* history: the ids of the curves fabricPathToPaperPath returned
    exported,         \* history: the id handed to paperPathToFabricPath, 0 before
    converted,        \* the value paperPathToFabricPath returned
    out,              \* the result fabric.Path: its commands, style and transformMatrix
    shapes,           \* the attributes of the canvas objects, by object
    objects,          \* canvas.getObjects()
    booleanPreview,   \* canvas._booleanPreview is set
    previewShown,     \* history: a preview was added to the canvas
    confirmShown,     \* history: window.confirm was called
    ret,              \* what the call returned: "none" (not yet), "null" or "out"
    shape,            \* the host path handed to the importer on its own
    paperPath,        \* what the importer returned for it
    result,           \* what the exporter returned for that
    step,             \* where the import / export of shape stands
    prim,             \* the selected object handed to the normalizer on its own
    built,            \* history: the curve the importer's loop built, before line 125
    viewportTransform, \* canvas.viewportTransform, the host's pan and zoom
    retinaScaling,    \* canvas.getRetinaScaling()
    paperScope,       \* the module's paperScope is set (line 4: null before the first call)
    viewMatrix,       \* paperScope.view.matrix
    viewAtCall,       \* history: canvas.viewportTransform when ensurePaper was last called
    unionCalls        \* history: how often doCurveBooleanUnion was called

\* invocations of doCurveBooleanUnion side by side
VARIABLES
    callPc,           \* where each invocation stands, by invocation
    callRet,          \* what each invocation returned: "none", "null" or "out"
    thread,           \* the invocation that holds the JavaScript thread, or "none"
    previewOf,        \* the invocation whose preview canvas._booleanPreview is, or "none"
    observed          \* history: <<c, o>> when invocation c took the preview of invocation o

\* the transform mode controller (InkscapeTransformMode.js) and its canvas
VARIABLES
    objectModes,      \* the WeakMap objectModes: "none" (no entry), "scale" or "rotate", by object
    controls,         \* the visible controls (setControlsVisibility), by object
    currentSelectedObject, \* the tracked object, "null" for null
    justSelected,     \* the flag of line 26
    previousSelectionCount, \* the count of line 27
    mouseDown,        \* _mouseDownX / _mouseDownY of each object: <<x, y>>, or <<>> when unset
    activeObject,     \* canvas.getActiveObject(), "null" for none
    members,          \* the _objects of each ActiveSelection made so far, by selection
    listeners,        \* the handler sets attached by enableInkscapeTransformMode and not removed
    enabled,          \* history: how often enableInkscapeTransformMode was called
    pending,          \* the events the canvas has still to fire for the gesture under way
    gesture,          \* history: the last gesture of the user or the host on the canvas
    toggled,          \* history: the calls of toggleMode since that gesture began
    cleaned           \* history: a cleanup function was called since the last enable

\* the guided lessons of tutorial.js
VARIABLES
    tutorialStarted,    \* the module flag of tutorial.js
    tpc,                \* where each call of startTutorial stands
    tGroups,            \* the groups each call of startTutorial built from its fragments
    fetches,            \* history: the calls of findGroupFragments made by startTutorial
    setups,             \* history: how often startTutorial added its groups and its handler
    early,              \* history: a call returned at its first line while another was awaiting
    tutorialCanvas,     \* how many copies of each lesson group the canvas holds
    movingHandlers,     \* the calls whose object:moving handler is attached
    nextButton,         \* the panel holds the button next-tutorial-btn
    spc,                \* where the call of startSecondTutorial stands
    allowBoxSelection,  \* canvas.allowBoxSelection
    toolbox,            \* tutorialObjects.toolbox is set
    addedTools,         \* the list added of startSecondTutorial; totalToSelect is its length
    tools,              \* the tools the canvas holds
    activeTools,        \* canvas.getActiveObjects() during the second lesson
    isDragging,         \* closure variable of startSecondTutorial
    completed,          \* closure variable of startSecondTutorial
    onObjectMovingOn,   \* onObjectMoving is attached to object:moving
    onMouseUpOn,        \* onMouseUp is attached to mouse:up
    collectedWith       \* history: the selection size and the pointer at each collection

tutVars == <<tutorialStarted, tpc, tGroups, fetches, setups, early, tutorialCanvas,
             movingHandlers, nextButton, spc, allowBoxSelection, toolbox, addedTools, tools,
             activeTools, isDragging, completed, onObjectMovingOn, onMouseUpOn, collectedWith>>

callVars == <<callPc, callRet, thread, previewOf, observed>>
modeVars == <<objectModes, controls, currentSelectedObject, justSelected, previousSelectionCount,
              mouseDown, activeObject, members, listeners, enabled, pending, gesture, toggled,
              cleaned>>
auxVars == <<callVars, modeVars, tutVars>>

runVars == <<pc, selected, i, resultPaperPath, next, united, project, removed, calls,
             curves, exported, converted, out, objects, booleanPreview, previewShown,
             confirmShown, ret, shapes>>
pathVars == <<shape, paperPath, result, step, prim, built>>
viewVars == <<viewportTransform, retinaScaling, paperScope, viewMatrix, viewAtCall, unionCalls>>
vars == <<runVars, pathVars, viewVars, auxVars>>

NoOut ==
    [path |-> <<>>, fill |-> "none", stroke |-> "none", strokeWidth |-> 0, opacity |-> 0,
     transformMatrix |-> Identity, selectable |-> FALSE]
NoShape == HostObject("path", "none", <<>>, FALSE, <<>>, 0, 0, "left", "top", Identity, NoStyle)

RunInit ==
    /\ pc = "idle"
    /\ selected = <<>>
    /\ i = 0
    /\ resultPaperPath = 0
    /\ next = 0
    /\ united = 0
    /\ project = <<>>
    /\ removed = {}
    /\ calls = <<>>
    /\ curves = <<>>
    /\ exported = 0
    /\ converted = NullConverted
    /\ out = NoOut
    /\ objects = InitObjects
    /\ booleanPreview = FALSE
    /\ previewShown = FALSE
    /\ confirmShown = FALSE
    /\ ret = "none"
    /\ shapes = Canvas

PathIdle ==
    /\ shape = NoShape
    /\ paperPath = NullPath
    /\ result = NullConverted
    /\ step = "off"
    /\ prim = NoShape
    /\ built = NullPath

\* the invocations explored side by side
Invocations == {"u1", "u2", "u3"}

\* no invocation yet
CallsIdle ==
    /\ callPc = [c \in Invocations |-> "idle"]
    /\ callRet = [c \in Invocations |-> "none"]
    /\ thread = "none"
    /\ previewOf = "none"
    /\ observed = {}

\* the objects on the canvas of the transform mode controller, and the
\* ActiveSelection objects the canvas makes for multi-object selections
MaxGroups == 2
Objs == {"a", "b", "c"}
GroupId(n) == "g" \o ToString(n)
Groups == {GroupId(n) : n \in 1..MaxGroups}
Selectables == Objs \cup Groups

\* no gesture yet
NoGesture ==
    [kind |-> "none", target |-> "null", event |-> "none", before |-> "none",
     tracked |-> "null", was |-> "null", mode |-> "none", flag |-> FALSE, drag |-> FALSE,
     corner |-> FALSE]

\* Fabric's default: every control of an object is visible
AllControls == {"tl", "tr", "bl", "br", "mt", "mb", "ml", "mr", "mtr"}

\* the module as loaded (lines 22-27), nothing selected, with the handler
\* sets attached so far
ModeLoaded(attached) ==
    /\ objectModes = [o \in Selectables |-> "none"]
    /\ controls = [o \in Selectables |-> AllControls]
    /\ currentSelectedObject = "null"
    /\ justSelected = FALSE
    /\ previousSelectionCount = 0
    /\ mouseDown = [o \in Selectables |-> <<>>]
    /\ activeObject = "null"
    /\ members = [g \in Groups |-> {}]
    /\ listeners = 1..attached
    /\ enabled = attached
    /\ pending = <<>>
    /\ gesture = NoGesture
    /\ toggled = 0
    /\ cleaned = FALSE

\* no listener yet
ModeIdle == ModeLoaded(0)

\* the host shows the canvas unpanned and unzoomed; no engine scope yet
ViewInit ==
    /\ viewportTransform = Identity
    /\ retinaScaling = 1
    /\ paperScope = FALSE
    /\ viewMatrix = Identity
    /\ viewAtCall = Identity
    /\ unionCalls = 0

\* the lessons' names, as the sources list them
TutorialCalls == {"t1", "t2", "t3"}
Frags == {"Owl", "Helmet", "Helmet_Target", "Owl_with_Helmet"}
Tools == {"Wrench", "Screwdriver", "Saw", "Pencil", "Hammer"}

\* the page is loaded and no lesson was started
TutorialIdle ==
    /\ tutorialStarted = FALSE
    /\ tpc = [c \in TutorialCalls |-> "idle"]
    /\ tGroups = [c \in TutorialCalls |-> {}]
    /\ fetches = 0
    /\ setups = 0
    /\ early = FALSE
    /\ tutorialCanvas = [f \in Frags |-> 0]
    /\ movingHandlers = {}
    /\ nextButton = FALSE
    /\ spc = "idle"
    /\ allowBoxSelection = TRUE
    /\ toolbox = FALSE
    /\ addedTools = {}
    /\ tools = {}
    /\ activeTools = {}
    /\ isDragging = FALSE
    /\ completed = FALSE
    /\ onObjectMovingOn = FALSE
    /\ onMouseUpOn = FALSE
    /\ collectedWith = <<>>

Init == RunInit /\ PathIdle /\ ViewInit /\ CallsIdle /\ ModeIdle /\ TutorialIdle

\* the engine items of the call that were not removed
unreleased == {id \in 1..Len(project) : id \notin removed}

\* --------------------------------------------------- doCurveBooleanUnion
\* mutant: a single selected shape is let through
minSelectionOne == 2 - 1

\* line 238: a selection shorter than this returns null
minSelection == 2

\* lines 32-37: the six components of the viewport transform times rs
viewScaled(vt, rs) == [k \in 1..6 |-> vt[k] * rs]

\* ensurePaper(canvas), lines 6-45, as the view matrix it leaves: a scope
\* that exists is returned as it is (line 7); a new scope gets the canvas's
\* viewport transform times the retina scaling (lines 28-39)
ensurePaper(scope, matrix, vt, rs) == IF scope THEN matrix ELSE viewScaled(vt, rs)

\* lines 237-247: the call starts on the active selection; a selection of
\* two or more reaches ensurePaper
Start ==
    /\ pc = "idle"
    /\ unionCalls' = unionCalls + 1
    /\ \E sel \in Selections :
        /\ selected' = sel
        /\ IF Len(sel) < minSelection
           THEN /\ pc' = "done" /\ ret' = "null" /\ i' = i
                /\ UNCHANGED <<paperScope, viewMatrix, viewAtCall>>
           ELSE /\ pc' = "loop" /\ ret' = ret /\ i' = 1
                /\ paperScope' = TRUE
                /\ viewMatrix' = ensurePaper(paperScope, viewMatrix, viewportTransform, retinaScaling)
                /\ viewAtCall' = viewportTransform
    /\ UNCHANGED <<resultPaperPath, next, united, project, removed, calls, curves, exported,
                   converted, out, objects, booleanPreview, previewShown, confirmShown>>
    /\ UNCHANGED <<viewportTransform, retinaScaling>>
    /\ UNCHANGED <<shapes, pathVars, auxVars>>

\* mutant: the first curve is dropped instead of kept
firstAccumulatorDropped(id) == 0

\* line 305: the first curve becomes the accumulator as it is
firstAccumulator(id) == id

\* mutant: the primitive itself is turned into the path made for it
afterNormalizeInPlace(shs, id) ==
    IF normalizeKind(shs[id]) \in {"points", "rect"}
    THEN [shs EXCEPT ![id] = sourceObj(shs[id])]
    ELSE shs

\* lines 255-302: sourceObj is a new fabric.Path; obj is only read, and so
\* are the attributes of every canvas object
afterNormalize(shs, id) == shs

\* lines 252-305: one shape is normalized and imported. fabricPathToPaperPath
\* creates its paper.Path (line 65) before it looks at obj.path, so the engine
\* gets an item also when null is returned.
ImportShape ==
    /\ pc = "loop"
    /\ i <= Len(selected)
    /\ shapes' = afterNormalize(shapes, selected[i])
    /\ LET obj == shapes[selected[i]]
           id == Len(project) + 1
           p == fabricPathToPaperPath(sourceObj(obj))
       IN  IF normalizeKind(obj) = "unsupported"
           THEN /\ i' = i + 1
                /\ UNCHANGED <<pc, project, curves, resultPaperPath, next>>
           ELSE IF p = NullPath
           THEN /\ project' = Append(project, PaperPath(<<>>, FALSE))
                /\ i' = i + 1
                /\ UNCHANGED <<pc, curves, resultPaperPath, next>>
           ELSE /\ project' = Append(project, p)
                /\ curves' = Append(curves, id)
                /\ IF resultPaperPath = 0
                   THEN /\ resultPaperPath' = firstAccumulator(id)
                        /\ i' = i + 1
                        /\ UNCHANGED <<pc, next>>
                   ELSE /\ next' = id
                        /\ pc' = "unite"
                        /\ UNCHANGED <<i, resultPaperPath>>
    /\ UNCHANGED <<selected, united, removed, calls, exported, converted, out, objects,
                   booleanPreview, previewShown, confirmShown, ret>>
    /\ UNCHANGED <<pathVars, viewVars, auxVars>>

\* mutant: the operands are swapped
uniteOperandsSwapped(acc, nxt) == <<nxt, acc>>

\* line 309: the operands handed to unite, receiver first
uniteOperands(acc, nxt) == <<acc, nxt>>

\* where the loop goes on after a unite that threw (lines 314-316: the error
\* is logged and the loop continues with the next shape)
afterUniteError == "loop"

\* line 309, when unite returns: the engine creates the result item
UniteOk ==
    /\ pc = "unite"
    /\ \E r \in UniteResults :
        /\ project' = Append(project, r)
        /\ united' = Len(project) + 1
        /\ calls' = Append(calls, [acc |-> uniteOperands(resultPaperPath, next)[1],
                                   next |-> uniteOperands(resultPaperPath, next)[2],
                                   result |-> Len(project) + 1])
    /\ pc' = "release"
    /\ UNCHANGED <<selected, i, resultPaperPath, next, removed, curves, exported, converted,
                   out, objects, booleanPreview, previewShown, confirmShown, ret>>
    /\ UNCHANGED <<shapes, pathVars, viewVars, auxVars>>

\* lines 309, 314-316: unite throws; nothing is removed, the accumulator stays
UniteError ==
    /\ pc = "unite"
    /\ calls' = Append(calls, [acc |-> uniteOperands(resultPaperPath, next)[1],
                               next |-> uniteOperands(resultPaperPath, next)[2],
                               result |-> 0])
    /\ next' = 0
    /\ pc' = afterUniteError
    /\ i' = IF afterUniteError = "loop" THEN i + 1 ELSE Len(selected) + 1
    /\ ret' = IF afterUniteError = "done" THEN "null" ELSE ret
    /\ UNCHANGED <<selected, resultPaperPath, united, project, removed, curves, exported,
                   converted, out, objects, booleanPreview, previewShown, confirmShown>>
    /\ UNCHANGED <<shapes, pathVars, viewVars, auxVars>>

\* lines 311-312: the items removed after a unite that returned
removedAfterUnite(acc, nxt) == {acc, nxt}

\* lines 311-313: both operands are removed, the result is the accumulator
Release ==
    /\ pc = "release"
    /\ removed' = removed \cup removedAfterUnite(resultPaperPath, next)
    /\ resultPaperPath' = united
    /\ united' = 0
    /\ next' = 0
    /\ i' = i + 1
    /\ pc' = "loop"
    /\ UNCHANGED <<selected, project, calls, curves, exported, converted, out, objects,
                   booleanPreview, previewShown, confirmShown, ret>>
    /\ UNCHANGED <<shapes, pathVars, viewVars, auxVars>>

\* line 320: after the loop, no accumulator returns null
LoopEnd ==
    /\ pc = "loop"
    /\ i > Len(selected)
    /\ IF resultPaperPath = 0
       THEN pc' = "done" /\ ret' = "null"
       ELSE pc' = "export" /\ ret' = ret
    /\ UNCHANGED <<selected, i, resultPaperPath, next, united, project, removed, calls, curves,
                   exported, converted, out, objects, booleanPreview, previewShown, confirmShown>>
    /\ UNCHANGED <<shapes, pathVars, viewVars, auxVars>>

\* mutant: the style is taken from the last selected object
styleSourceLast(sel) == sel[Len(sel)]

\* line 336: src = selected[0]
styleSource(sel) == sel[1]

\* line 337: out.set({fill, stroke, strokeWidth, opacity}) from src
copyStyle(o, src) ==
    [o EXCEPT !.fill = src.style.fill, !.stroke = src.style.stroke,
              !.strokeWidth = src.style.strokeWidth, !.opacity = src.style.opacity]

\* lines 325-337: the accumulator is exported; the result takes the style
\* of the first selected object
Export ==
    /\ pc = "export"
    /\ exported' = resultPaperPath
    /\ LET c == paperPathToFabricPath(project[resultPaperPath])
       IN  /\ converted' = c
           /\ IF c.isNull
              THEN pc' = "done" /\ ret' = "null" /\ out' = out
              ELSE /\ pc' = "preview"
                   /\ ret' = ret
                   /\ out' = copyStyle([NoOut EXCEPT !.path = c.fabricPath],
                                        shapes[styleSource(selected)])
    /\ UNCHANGED <<selected, i, resultPaperPath, next, united, project, removed, calls, curves,
                   objects, booleanPreview, previewShown, confirmShown>>
    /\ UNCHANGED <<shapes, pathVars, viewVars, auxVars>>

\* lines 340-374: the preview is built and added inside a try; a throw
\* before canvas.add leaves nothing, a throw between canvas.add and line 369
\* leaves the preview on the canvas without canvas._booleanPreview.
Preview ==
    /\ pc = "preview"
    /\ \E thrown \in {"no", "beforeAdd", "afterAdd"} :
        /\ objects' = IF thrown = "beforeAdd" THEN objects ELSE Append(objects, "preview")
        /\ previewShown' = (thrown # "beforeAdd")
        /\ booleanPreview' = (thrown = "no")
    /\ pc' = "confirm"
    /\ UNCHANGED <<selected, i, resultPaperPath, next, united, project, removed, calls, curves,
                   exported, converted, out, confirmShown, ret>>
    /\ UNCHANGED <<shapes, pathVars, viewVars, auxVars>>

\* canvas.remove(o)
canvasRemove(objs, o) == SelectSeq(objs, LAMBDA x : x # o)

\* lines 377-387: the user confirms or cancels; the preview is taken away
Confirm ==
    /\ pc = "confirm"
    /\ confirmShown' = TRUE
    /\ objects' = IF booleanPreview THEN canvasRemove(objects, "preview") ELSE objects
    /\ booleanPreview' = FALSE
    /\ \E apply \in BOOLEAN :
        IF apply THEN pc' = "apply" /\ ret' = ret
        ELSE pc' = "done" /\ ret' = "null"
    /\ UNCHANGED <<selected, i, resultPaperPath, next, united, project, removed, calls, curves,
                   exported, converted, out, previewShown>>
    /\ UNCHANGED <<shapes, pathVars, viewVars, auxVars>>

\* canvas.getObjects().indexOf(o), counted from 0; -1 when absent
indexOf(objs, o) ==
    IF \E k \in DOMAIN objs : objs[k] = o
    THEN (CHOOSE k \in DOMAIN objs : objs[k] = o /\ \A j \in 1..(k - 1) : objs[j] # o) - 1
    ELSE -1

RECURSIVE removeAll(_, _, _)
removeAll(objs, sel, k) ==
    IF k > Len(sel) THEN objs ELSE removeAll(canvasRemove(objs, sel[k]), sel, k + 1)

\* canvas.insertAt(o, index, true): Fabric's non-splicing insertAt assigns
\* objects[index] = o; an index past the end leaves holes before it
insertAt(objs, o, index) ==
    [k \in 1..Max(Len(objs), index + 1) |->
        IF k = index + 1 THEN o ELSE IF k <= Len(objs) THEN objs[k] ELSE "hole"]

\* lines 389-419: the originals are replaced by the result, the final
\* engine item is removed, the result is returned
Apply ==
    /\ pc = "apply"
    /\ LET firstIndex == indexOf(objects, selected[1])
           rest == removeAll(objects, selected, 1)
       IN  objects' = IF firstIndex >= 0 THEN insertAt(rest, "out", firstIndex)
                      ELSE Append(rest, "out")
    /\ out' = [out EXCEPT !.transformMatrix = Translate(converted.tx, converted.ty),
                          !.selectable = TRUE]
    /\ removed' = removed \cup {resultPaperPath}
    /\ ret' = "out"
    /\ pc' = "done"
    /\ UNCHANGED <<selected, i, resultPaperPath, next, united, project, calls, curves, exported,
                   converted, booleanPreview, previewShown, confirmShown>>
    /\ UNCHANGED <<shapes, pathVars, viewVars, auxVars>>

Next ==
    \/ Start
    \/ ImportShape
    \/ UniteOk
    \/ UniteError
    \/ Release
    \/ LoopEnd
    \/ Export
    \/ Preview
    \/ Confirm
    \/ Apply

Spec == Init /\ [][Next]_vars

\* ------------------------------------------- the importer and exporter alone
\* the longest command sequence explored
MaxCmds == 3

\* the commands the explored paths are made of: two move-tos, two lines, a
\* cubic that Paper subdivides, a cubic flat enough to become one line, a
\* quadratic, and a close
CommandPool ==
    { <<"M", 0, 0>>, <<"M", G, G>>, <<"L", G, 0>>, <<"L", 0, G>>,
      <<"C", 0, G, G, G, G, 0>>, <<"C", 0, G \div 2, G, 0, G, 0>>,
      <<"Q", G, G, 2 * G, 0>>, <<"Z">> }

\* a close never comes before the first point of the path
WellFormed(path) ==
    \A k \in DOMAIN path : path[k][1] = "Z" => \E j \in 1..(k - 1) : path[j][1] # "Z"

PathInputs ==
    {path \in UNION {[1..n -> CommandPool] : n \in 0..MaxCmds} : WellFormed(path)}

PathShapes ==
    {HostObject("path", "array", path, FALSE, <<>>, 0, 0, "left", "top", m, NoStyle) :
        path \in PathInputs, m \in {Identity, Translate(G, 0)}}

\* the most points a point-list primitive has, and the most anchors an
\* engine path handed to the exporter has
MaxPoints == 3
MaxSegs == 3

\* the primitives handed to the normalizer: rectangles and circles of every
\* size and origin, polygons and polylines over a few points (an empty point
\* list included)
Sizes == {0, G, 2 * G, 10 * Px, 20 * Px}
PointPool == {<<0, 0>>, <<G, 0>>, <<0, G>>}
PointLists == UNION {[1..n -> PointPool] : n \in 0..MaxPoints}
Primitives ==
    {HostObject(t, "none", <<>>, FALSE, <<>>, w, h, ox, oy, Identity, NoStyle) :
        t \in {"rect", "circle"}, w \in Sizes, h \in Sizes,
        ox \in {"left", "center", "right"}, oy \in {"top", "center", "bottom"}}
    \cup
    {HostObject(t, "none", <<>>, TRUE, pts, G, G, "left", "top", m, NoStyle) :
        t \in {"polygon", "polyline"}, pts \in PointLists, m \in {Identity, Translate(G, 0)}}

\* the engine curves handed to the exporter: paths of up to MaxSegs anchors
\* with and without handles, open and closed, and compound paths and groups
AnchorPool ==
    {Segment(pt, hIn, hOut) :
        pt \in {<<0, 0>>, <<2 * G, 0>>, <<2 * G, 2 * G>>},
        hIn \in {ZeroPt, <<-G, 0>>}, hOut \in {ZeroPt, <<0, G>>}}
PlainCurves ==
    {PaperPath(segs, cl) : segs \in UNION {[1..n -> AnchorPool] : n \in 0..MaxSegs}, cl \in BOOLEAN}
Components ==
    {PaperPath(<<>>, FALSE), PaperPath(<<Segment(<<G, G>>, ZeroPt, ZeroPt)>>, FALSE), Quad, Tri}
EngineCurves ==
    PlainCurves
    \cup {PaperContainer("CompoundPath", <<a, b>>) : a \in Components, b \in Components}
    \cup {PaperContainer("Group", <<a, b>>) : a \in Components, b \in Components}
    \cup {PaperContainer("Group", <<a, PaperContainer("CompoundPath", <<b>>)>>) :
              a \in Components, b \in Components}

\* a host path for the importer, a primitive for the normalizer, or an engine
\* curve for the exporter
PathInit ==
    /\ RunInit
    /\ ViewInit
    /\ CallsIdle
    /\ ModeIdle
    /\ TutorialIdle
    /\ result = NullConverted
    /\ built = NullPath
    /\ \/ step = "new" /\ shape \in PathShapes /\ prim = NoShape /\ paperPath = NullPath
       \/ step = "prim" /\ prim \in Primitives /\ shape = NoShape /\ paperPath = NullPath
       \/ step = "curve" /\ paperPath \in EngineCurves /\ shape = NoShape /\ prim = NoShape

\* lines 255-302 on prim: an unsupported object is skipped (line 300); a
\* point list with no point throws at line 260, where obj.points[0] is
\* undefined; otherwise sourceObj is the path made for the primitive
PathNormalize ==
    /\ step = "prim"
    /\ IF normalizeKind(prim) = "unsupported"
       THEN step' = "unsupported" /\ shape' = shape
       ELSE IF normalizeKind(prim) = "points" /\ Len(prim.points) = 0
       THEN step' = "threw" /\ shape' = shape
       ELSE step' = "new" /\ shape' = sourceObj(prim)
    /\ UNCHANGED <<paperPath, result, prim, built>>
    /\ UNCHANGED <<runVars, viewVars, auxVars>>

\* fabricPathToPaperPath(shape, canvas)
PathImport ==
    /\ step = "new"
    /\ built' = IF IsArray(shape) THEN importedSegments(shape) ELSE NullPath
    /\ paperPath' = fabricPathToPaperPath(shape)
    /\ step' = "imported"
    /\ UNCHANGED <<shape, result, prim>>
    /\ UNCHANGED <<runVars, viewVars, auxVars>>

\* paperPathToFabricPath(paperPath), with no combine in between
PathExport ==
    /\ step \in {"imported", "curve"}
    /\ paperPath # NullPath
    /\ result' = paperPathToFabricPath(paperPath)
    /\ step' = "exported"
    /\ UNCHANGED <<shape, paperPath, prim, built>>
    /\ UNCHANGED <<runVars, viewVars, auxVars>>

PathNext ==
    \/ PathNormalize
    \/ PathImport
    \/ PathExport

SpecPath == PathInit /\ [][PathNext]_vars

\* ------------------------------------------------ the engine view over calls
\* the most calls of doCurveBooleanUnion explored
MaxCalls == 3

\* the viewport transforms the host can show: zoom 1 or 2, panned or not
Views == {<<z, 0, 0, z, e, f>> : z \in {1, 2}, e \in {0, G}, f \in {0, G}}

ViewStart ==
    /\ RunInit
    /\ PathIdle
    /\ CallsIdle
    /\ ModeIdle
    /\ TutorialIdle
    /\ viewportTransform \in Views
    /\ retinaScaling \in {1, 2}
    /\ paperScope = FALSE
    /\ viewMatrix = Identity
    /\ viewAtCall = viewportTransform
    /\ unionCalls = 0

\* the host pans or zooms the canvas between two calls
SetViewportTransform ==
    /\ \E vt \in Views : vt # viewportTransform /\ viewportTransform' = vt
    /\ UNCHANGED <<retinaScaling, paperScope, viewMatrix, viewAtCall, unionCalls>>
    /\ UNCHANGED <<runVars, pathVars, auxVars>>

\* doCurveBooleanUnion as far as the engine scope goes (lines 236-247; no
\* later line touches the view): a call on n selected objects returns at
\* line 238 when n < 2 and else runs ensurePaper(canvas)
UnionCall ==
    /\ unionCalls < MaxCalls
    /\ unionCalls' = unionCalls + 1
    /\ \E n \in 0..MaxSel :
        IF n < minSelection
        THEN UNCHANGED <<paperScope, viewMatrix, viewAtCall>>
        ELSE /\ paperScope' = TRUE
             /\ viewMatrix' = ensurePaper(paperScope, viewMatrix, viewportTransform, retinaScaling)
             /\ viewAtCall' = viewportTransform
    /\ UNCHANGED <<viewportTransform, retinaScaling>>
    /\ UNCHANGED <<runVars, pathVars, auxVars>>

ViewNext ==
    \/ SetViewportTransform
    \/ UnionCall

SpecView == ViewStart /\ [][ViewNext]_vars

\* --------------------------------------------- invocations side by side
\* mutant: the function awaits before it asks for the confirmation
suspensionPointsAtConfirm == {"confirm"}

\* the places where doCurveBooleanUnion gives up the thread: the function is
\* async but lines 235-420 hold no await, and window.confirm (line 377)
\* blocks, so there is none
suspensionPoints == {}

\* invocation c may take its next step: it holds the thread, or it waits at
\* a suspension point and the thread is free
CanRun(c) == thread = c \/ (thread = "none" /\ callPc[c] \in suspensionPoints)

\* invocation c goes to position to: the thread is kept unless the
\* invocation returned or awaits
Goes(c, to) ==
    /\ callPc' = [callPc EXCEPT ![c] = to]
    /\ thread' = IF to = "done" \/ to \in suspensionPoints THEN "none" ELSE c

\* lines 235-247: a call starts when the thread is free
InvokeStart(c) ==
    /\ callPc[c] = "idle"
    /\ thread = "none"
    /\ \E n \in 0..MaxSel :
        IF n < minSelection
        THEN Goes(c, "done") /\ callRet' = [callRet EXCEPT ![c] = "null"]
        ELSE Goes(c, "loop") /\ callRet' = callRet
    /\ UNCHANGED <<previewOf, observed>>
    /\ UNCHANGED <<runVars, pathVars, viewVars, modeVars, tutVars>>

\* lines 250-320: import and fold; with no accumulator the call returns
InvokeFold(c) ==
    /\ callPc[c] = "loop"
    /\ CanRun(c)
    /\ \E curve \in BOOLEAN :
        IF curve
        THEN Goes(c, "export") /\ callRet' = callRet
        ELSE Goes(c, "done") /\ callRet' = [callRet EXCEPT ![c] = "null"]
    /\ UNCHANGED <<previewOf, observed>>
    /\ UNCHANGED <<runVars, pathVars, viewVars, modeVars, tutVars>>

\* lines 325-337: export; a null export returns
InvokeExport(c) ==
    /\ callPc[c] = "export"
    /\ CanRun(c)
    /\ \E isNull \in BOOLEAN :
        IF isNull
        THEN Goes(c, "done") /\ callRet' = [callRet EXCEPT ![c] = "null"]
        ELSE Goes(c, "preview") /\ callRet' = callRet
    /\ UNCHANGED <<previewOf, observed>>
    /\ UNCHANGED <<runVars, pathVars, viewVars, modeVars, tutVars>>

\* lines 340-374: the preview; line 369 sets canvas._booleanPreview unless
\* the try block threw before
InvokePreview(c) ==
    /\ callPc[c] = "preview"
    /\ CanRun(c)
    /\ \E thrown \in BOOLEAN : previewOf' = IF thrown THEN previewOf ELSE c
    /\ Goes(c, "confirm")
    /\ UNCHANGED <<callRet, observed>>
    /\ UNCHANGED <<runVars, pathVars, viewVars, modeVars, tutVars>>

\* lines 377-387: the confirmation; canvas._booleanPreview, whosever it is,
\* is removed and deleted
InvokeConfirm(c) ==
    /\ callPc[c] = "confirm"
    /\ CanRun(c)
    /\ observed' = IF previewOf = "none" THEN observed ELSE observed \cup {<<c, previewOf>>}
    /\ previewOf' = "none"
    /\ \E apply \in BOOLEAN :
        IF apply
        THEN Goes(c, "apply") /\ callRet' = callRet
        ELSE Goes(c, "done") /\ callRet' = [callRet EXCEPT ![c] = "null"]
    /\ UNCHANGED <<runVars, pathVars, viewVars, modeVars, tutVars>>

\* lines 389-419: the result is applied and returned
InvokeApply(c) ==
    /\ callPc[c] = "apply"
    /\ CanRun(c)
    /\ Goes(c, "done")
    /\ callRet' = [callRet EXCEPT ![c] = "out"]
    /\ UNCHANGED <<previewOf, observed>>
    /\ UNCHANGED <<runVars, pathVars, viewVars, modeVars, tutVars>>

CallsNext ==
    \E c \in Invocations :
        \/ InvokeStart(c)
        \/ InvokeFold(c)
        \/ InvokeExport(c)
        \/ InvokePreview(c)
        \/ InvokeConfirm(c)
        \/ InvokeApply(c)

SpecCalls == Init /\ [][CallsNext]_vars

\* ------------------------------------------------ the transform mode module
\* CONFIG.DRAG_THRESHOLD of constants.js, in pixels
DRAG_THRESHOLD == 5

\* the pointer positions explored: within the threshold of one another, or
\* beyond it in x, or beyond it in y
Pointers ==
    {<<0, 0>>, <<DRAG_THRESHOLD, DRAG_THRESHOLD>>, <<DRAG_THRESHOLD + 1, 0>>,
     <<0, DRAG_THRESHOLD + 1>>}

\* where the button goes down
Presses == {<<0, 0>>, <<DRAG_THRESHOLD, DRAG_THRESHOLD>>}

Abs(n) == IF n < 0 THEN 0 - n ELSE n

\* the pointer went further than the threshold from where the button went
\* down, in x or in y: what the user did, whatever the module makes of it
movedBeyond(down, up) ==
    \E k \in 1..2 : up[k] - down[k] > DRAG_THRESHOLD \/ down[k] - up[k] > DRAG_THRESHOLD

\* mutant: only the displacement in x counts as a drag
wasDraggedInX(down, up) == Abs(up[1] - down[1]) > DRAG_THRESHOLD

\* lines 529-531
wasDragged(down, up) ==
    Abs(up[1] - down[1]) > DRAG_THRESHOLD \/ Abs(up[2] - down[2]) > DRAG_THRESHOLD

\* the state of the module and of the objects it writes to, as one value the
\* handlers take and give back
Module ==
    [objectModes |-> objectModes, controls |-> controls,
     currentSelectedObject |-> currentSelectedObject, justSelected |-> justSelected,
     previousSelectionCount |-> previousSelectionCount, mouseDown |-> mouseDown,
     toggled |-> toggled]

\* Fabric's setControlsVisibility: the controls named are set, the others kept
setControlsVisibility(visible, shown, hidden) == (visible \cup shown) \ hidden

Corners == {"tl", "tr", "bl", "br"}
Edges == {"mt", "mb", "ml", "mr"}

\* lines 264-268: the controls setRotateMode hides
rotateModeHidden == Edges \cup {"mtr"}

\* lines 202-252
setScaleMode(m, obj) ==
    IF obj = "null" THEN m
    ELSE [m EXCEPT !.objectModes[obj] = "scale",
                   !.controls[obj] = setControlsVisibility(@, Corners \cup Edges, {"mtr"})]

\* lines 258-301
setRotateMode(m, obj) ==
    IF obj = "null" THEN m
    ELSE [m EXCEPT !.objectModes[obj] = "rotate",
                   !.controls[obj] = setControlsVisibility(@, Corners, rotateModeHidden)]

\* lines 306-308: an object without an entry counts as in scale mode
getMode(m, obj) == IF m.objectModes[obj] = "none" THEN "scale" ELSE m.objectModes[obj]

\* lines 314-329
toggleMode(m, obj) ==
    IF obj = "null" THEN m
    ELSE LET t == IF getMode(m, obj) = "scale" THEN setRotateMode(m, obj)
                  ELSE setScaleMode(m, obj)
         IN  [t EXCEPT !.toggled = @ + 1]

\* obj.type === 'activeSelection'
isActiveSelection(obj) == obj \in Groups

\* mutant: a created selection keeps the mode stored for its object
handleSelectionCreatedKeepsMode(m, e) ==
    LET first == CHOOSE x \in e.selected : TRUE
    IN  IF Cardinality(e.selected) = 1
        THEN [m EXCEPT !.currentSelectedObject = first, !.justSelected = TRUE,
                       !.previousSelectionCount = 1]
        ELSE m

\* lines 336-359; e.active is canvas.getActiveObject()
handleSelectionCreated(m, e) ==
    IF Cardinality(e.selected) = 1
    THEN LET first == CHOOSE x \in e.selected : TRUE
         IN  [setScaleMode(m, first) EXCEPT !.currentSelectedObject = first,
                                            !.justSelected = TRUE,
                                            !.previousSelectionCount = 1]
    ELSE IF Cardinality(e.selected) > 1 /\ e.active # "null"
    THEN [setScaleMode(m, e.active) EXCEPT !.currentSelectedObject = e.active,
                                           !.justSelected = TRUE,
                                           !.previousSelectionCount = Cardinality(e.selected)]
    ELSE m

\* lines 366-372
getActualSelectionCount(active) ==
    IF active = "null" THEN 0
    ELSE IF isActiveSelection(active) THEN Cardinality(members[active])
    ELSE 1

\* mutant: a new single object is tracked without the justSelected flag
handleSingleObjectSelectionNoFlag(m, obj, e, wasActiveSelection, previousMode) ==
    [setScaleMode(m, obj) EXCEPT !.currentSelectedObject = obj, !.previousSelectionCount = 1]

\* lines 420-445
handleSingleObjectSelection(m, obj, e, wasActiveSelection, previousMode) ==
    LET isDeselectionToOne == wasActiveSelection /\ e.deselected # {} /\ e.selected = {}
        isDifferentObject == obj # m.currentSelectedObject
        tracked == [m EXCEPT !.currentSelectedObject = obj, !.justSelected = TRUE]
        moded == IF isDeselectionToOne
                 THEN IF previousMode = "rotate" THEN setRotateMode(tracked, obj)
                      ELSE setScaleMode(tracked, obj)
                 ELSE IF isDifferentObject THEN setScaleMode(tracked, obj)
                 ELSE m
    IN  [moded EXCEPT !.previousSelectionCount = 1]

\* mutant: a multi-object selection always starts in scale mode
handleMultiObjectSelectionAlwaysScale(m, active, e, wasActiveSelection, previousMode, actualCount) ==
    [setScaleMode(m, active) EXCEPT !.currentSelectedObject = active, !.justSelected = TRUE,
                                    !.previousSelectionCount = actualCount]

\* lines 457-478
handleMultiObjectSelection(m, active, e, wasActiveSelection, previousMode, actualCount) ==
    LET isModifyingExisting == wasActiveSelection /\ (e.selected # {} \/ e.deselected # {})
        tracked == [m EXCEPT !.currentSelectedObject = active, !.justSelected = TRUE]
        moded == IF isModifyingExisting /\ previousMode = "rotate"
                 THEN setRotateMode(tracked, active)
                 ELSE setScaleMode(tracked, active)
    IN  [moded EXCEPT !.previousSelectionCount = actualCount]

\* lines 383-409
handleSelectionUpdated(m, e) ==
    LET actualCount == getActualSelectionCount(e.active)
        oldMode == IF m.currentSelectedObject # "null"
                   THEN getMode(m, m.currentSelectedObject) ELSE "null"
        wasActiveSelection == isActiveSelection(m.currentSelectedObject)
    IN  IF actualCount = 1 /\ ~isActiveSelection(e.active)
        THEN handleSingleObjectSelection(m, e.active, e, wasActiveSelection, oldMode)
        ELSE IF actualCount > 1 \/ isActiveSelection(e.active)
        THEN handleMultiObjectSelection(m, e.active, e, wasActiveSelection, oldMode,
                                        actualCount)
        ELSE m

\* lines 493-495 and 514-516
isPartOfActiveSelection(active, target) ==
    isActiveSelection(active) /\ target \in members[active]

\* lines 485-502
handleMouseDown(m, e) ==
    IF e.active = "null" THEN m
    ELSE IF e.corner THEN m
    ELSE IF (e.target = e.active \/ isPartOfActiveSelection(e.active, e.target))
            /\ e.active = m.currentSelectedObject
    THEN [m EXCEPT !.mouseDown[e.active] = e.pointer]
    ELSE m

\* lines 509-543
handleMouseUp(m, e) ==
    IF e.active = "null" THEN m
    ELSE IF (e.target = e.active \/ isPartOfActiveSelection(e.active, e.target))
            /\ e.active = m.currentSelectedObject
    THEN IF m.justSelected
         THEN [m EXCEPT !.justSelected = FALSE, !.mouseDown[e.active] = <<>>]
         ELSE IF m.mouseDown[e.active] # <<>>
         THEN LET after == IF wasDragged(m.mouseDown[e.active], e.pointer) THEN m
                           ELSE toggleMode(m, e.active)
              IN  [after EXCEPT !.mouseDown[e.active] = <<>>]
         ELSE m
    ELSE m

\* mutant: the justSelected flag outlives the selection
handleSelectionClearedKeepsFlag(m, e) ==
    [m EXCEPT !.currentSelectedObject = "null", !.previousSelectionCount = 0]

\* lines 550-554
handleSelectionCleared(m, e) ==
    [m EXCEPT !.currentSelectedObject = "null", !.justSelected = FALSE,
              !.previousSelectionCount = 0]

\* lines 568-572: the handler each attached set runs for an event
handle(m, e) ==
    CASE e.type = "selection:created" -> handleSelectionCreated(m, e)
      [] e.type = "selection:updated" -> handleSelectionUpdated(m, e)
      [] e.type = "selection:cleared" -> handleSelectionCleared(m, e)
      [] e.type = "mouse:down" -> handleMouseDown(m, e)
      [] e.type = "mouse:up" -> handleMouseUp(m, e)

\* Fabric's fire: every attached handler of the event runs, one after another
RECURSIVE fire(_, _, _)
fire(m, e, n) == IF n = 0 THEN m ELSE fire(handle(m, e), e, n - 1)

\* ------------------------------------------------- the canvas and its events
MaxEnable == 2

\* an event as the handlers read it: e.selected, e.deselected, e.target,
\* e.transform.corner, e.pointer, and canvas.getActiveObject() when it fires
Event(type, added, removedObjs, active, target, corner, pointer) ==
    [type |-> type, selected |-> added, deselected |-> removedObjs, active |-> active,
     target |-> target, corner |-> corner, pointer |-> pointer]

MouseDownEvent(active, target, corner, pointer) ==
    Event("mouse:down", {}, {}, active, target, corner, pointer)

MouseUpEvent(active, target, pointer) ==
    Event("mouse:up", {}, {}, active, target, FALSE, pointer)

\* Fabric's _fireSelectionEvents: created when nothing was selected before,
\* updated with the objects added and removed otherwise
SelectionEvent(before, after, active) ==
    IF before = {}
    THEN Event("selection:created", after, {}, active, "null", FALSE, <<0, 0>>)
    ELSE Event("selection:updated", after \ before, before \ after, active, "null", FALSE,
               <<0, 0>>)

ClearedEvent == Event("selection:cleared", {}, {}, "null", "null", FALSE, <<0, 0>>)

\* canvas.getActiveObjects()
activeObjects ==
    IF activeObject = "null" THEN {}
    ELSE IF isActiveSelection(activeObject) THEN members[activeObject]
    ELSE {activeObject}

\* each multi-object selection is a new ActiveSelection object: one that
\* nothing refers to
unused == {g \in Groups : members[g] = {}}
newGroup == CHOOSE g \in unused : TRUE

\* g is referred to by the canvas, by the module or by an event still to fire
referenced(g, active, current, events) ==
    \/ g = active
    \/ g = current
    \/ \E k \in DOMAIN events : events[k].active = g \/ events[k].target = g

\* line 22: the entry of an object nothing refers to leaves the WeakMap with
\* the object
collected(f, blank, active, current, events) ==
    [o \in Selectables |->
        IF o \in Groups /\ ~referenced(o, active, current, events) THEN blank ELSE f[o]]

\* a gesture as the claims look back on it: its kind, the object under the
\* pointer, the selection event it made the canvas fire, and, when it began,
\* the mode stored for that object, the object tracked, the active object,
\* the mode of the active object and the justSelected flag
Gesture(kind, target, event, drag, corner) ==
    [kind |-> kind, target |-> target, event |-> event,
     before |-> IF target = "null" THEN "none" ELSE objectModes[target],
     tracked |-> currentSelectedObject,
     was |-> activeObject,
     mode |-> IF activeObject = "null" THEN "none" ELSE getMode(Module, activeObject),
     flag |-> justSelected,
     drag |-> drag, corner |-> corner]

\* nothing is under way on the canvas
settled == pending = <<>> /\ gesture = NoGesture

\* a gesture begins when the one before is over
Begin(g, events) ==
    /\ settled
    /\ pending' = events
    /\ gesture' = g
    /\ toggled' = 0
    /\ UNCHANGED <<objectModes, controls, currentSelectedObject, justSelected,
                   previousSelectionCount, mouseDown, activeObject, listeners, enabled,
                   cleaned>>
    /\ UNCHANGED <<runVars, pathVars, viewVars, callVars, tutVars>>

\* a click, with or without a drag, on the selection: on the active object,
\* on one of its controls, or inside the active multi-object selection, whose
\* members Fabric's findTarget hides behind the selection
ClickSelected(x, corner, down, up) ==
    /\ activeObject # "null"
    /\ x \in activeObjects
    /\ Begin(Gesture("click", activeObject, "none", movedBeyond(down, up), corner),
             <<MouseDownEvent(activeObject, activeObject, corner, down),
               MouseUpEvent(activeObject, activeObject, up)>>)
    /\ UNCHANGED members

\* a click on an object outside the selection: Fabric's mouse-down handler
\* makes it the active object, fires the selection event, then mouse:down
ClickToSelect(x, corner, down, up) ==
    /\ x \notin activeObjects
    /\ LET event == SelectionEvent(activeObjects, {x}, x)
       IN  Begin(Gesture("click", x, event.type, movedBeyond(down, up), corner),
                 <<event, MouseDownEvent(x, x, corner, down), MouseUpEvent(x, x, up)>>)
    /\ UNCHANGED members

\* a shift-click on an object while another single object is active:
\* Fabric's _createActiveSelection makes a new selection of the two
ShiftClickCreate(x, down) ==
    /\ activeObject \in Objs
    /\ x # activeObject
    /\ unused # {}
    /\ members' = [members EXCEPT ![newGroup] = {activeObject, x}]
    /\ Begin(Gesture("shift", x, "selection:updated", FALSE, FALSE),
             <<SelectionEvent({activeObject}, {activeObject, x}, newGroup),
               MouseDownEvent(newGroup, x, FALSE, down),
               MouseUpEvent(newGroup, newGroup, down)>>)

\* a shift-click on an object outside the active multi-object selection:
\* _updateActiveSelection adds it to the same selection object
ShiftClickAdd(x, down) ==
    /\ isActiveSelection(activeObject)
    /\ x \notin members[activeObject]
    /\ members' = [members EXCEPT ![activeObject] = @ \cup {x}]
    /\ Begin(Gesture("shift", x, "selection:updated", FALSE, FALSE),
             <<SelectionEvent(members[activeObject], members[activeObject] \cup {x},
                              activeObject),
               MouseDownEvent(activeObject, x, FALSE, down),
               MouseUpEvent(activeObject, activeObject, down)>>)

\* a shift-click on a member of the active multi-object selection:
\* _updateActiveSelection removes it, and a selection left with one member
\* gives way to that member; mouse:down still has the selection as target,
\* mouse:up what lies under the pointer then
ShiftClickRemove(x, down, upOnSelection) ==
    /\ isActiveSelection(activeObject)
    /\ x \in members[activeObject]
    /\ LET rest == members[activeObject] \ {x}
           active == IF Cardinality(rest) = 1 THEN CHOOSE y \in rest : TRUE
                     ELSE activeObject
           upTarget == IF upOnSelection /\ Cardinality(rest) > 1 THEN activeObject ELSE x
       IN  /\ members' = [members EXCEPT ![activeObject] = rest]
           /\ Begin(Gesture("shift", x, "selection:updated", FALSE, FALSE),
                    <<SelectionEvent(members[activeObject], rest, active),
                      MouseDownEvent(active, activeObject, FALSE, down),
                      MouseUpEvent(active, upTarget, down)>>)

\* a click on the empty canvas: the selection, if any, is discarded
ClickEmpty(down) ==
    /\ Begin(Gesture("empty", "null", IF activeObject = "null" THEN "none"
                                      ELSE "selection:cleared", FALSE, FALSE),
             (IF activeObject = "null" THEN <<>> ELSE <<ClearedEvent>>)
             \o <<MouseDownEvent("null", "null", FALSE, down),
                  MouseUpEvent("null", "null", down)>>)
    /\ UNCHANGED members

\* a marquee drawn from the empty canvas around the objects of group: the
\* press discards the selection, the release selects the objects (Fabric's
\* _groupSelectedObjects) and then fires mouse:up, whose target is what lay
\* under the pointer at the release
Marquee(group, upTarget, down, up) ==
    /\ group # {}
    /\ upTarget \in group \cup {"null"}
    /\ movedBeyond(down, up)
    /\ Cardinality(group) > 1 => unused # {}
    /\ LET active == IF Cardinality(group) = 1 THEN CHOOSE y \in group : TRUE
                     ELSE newGroup
       IN  /\ members' = IF Cardinality(group) = 1 THEN members
                         ELSE [members EXCEPT ![newGroup] = group]
           /\ Begin(Gesture("marquee", upTarget, "selection:created", TRUE, FALSE),
                    (IF activeObject = "null" THEN <<>> ELSE <<ClearedEvent>>)
                    \o <<MouseDownEvent("null", "null", FALSE, down),
                         SelectionEvent({}, group, active),
                         MouseUpEvent(active, upTarget, up)>>)

\* canvas.setActiveObject(obj) called by the host, as curveBoolean.js line
\* 413 does: the selection events fire, no mouse event does
SetActiveObject(x) ==
    /\ x # activeObject
    /\ LET event == SelectionEvent(activeObjects, {x}, x)
       IN  Begin(Gesture("program", x, event.type, FALSE, FALSE), <<event>>)
    /\ UNCHANGED members

\* canvas.discardActiveObject() called by the host, as tutorial.js does
DiscardActiveObject ==
    /\ activeObject # "null"
    /\ Begin(Gesture("program", "null", "selection:cleared", FALSE, FALSE),
             <<ClearedEvent>>)
    /\ UNCHANGED members

\* the canvas fires the next event of the gesture: the active object is the
\* one the canvas has at that moment, and every attached handler set runs
Dispatch(type) ==
    /\ pending # <<>>
    /\ Head(pending).type = type
    /\ LET m == fire(Module, Head(pending), Cardinality(listeners))
           active == Head(pending).active
           current == m.currentSelectedObject
       IN  /\ objectModes' = collected(m.objectModes, "none", active, current, Tail(pending))
           /\ controls' = collected(m.controls, AllControls, active, current, Tail(pending))
           /\ mouseDown' = collected(m.mouseDown, <<>>, active, current, Tail(pending))
           /\ members' = [g \in Groups |->
                            IF referenced(g, active, current, Tail(pending)) THEN members[g]
                            ELSE {}]
           /\ currentSelectedObject' = current
           /\ justSelected' = m.justSelected
           /\ previousSelectionCount' = m.previousSelectionCount
           /\ toggled' = m.toggled
           /\ activeObject' = active
    /\ pending' = Tail(pending)
    /\ UNCHANGED <<listeners, enabled, gesture, cleaned>>
    /\ UNCHANGED <<runVars, pathVars, viewVars, callVars, tutVars>>

OnSelectionCreated == Dispatch("selection:created")
OnSelectionUpdated == Dispatch("selection:updated")
OnSelectionCleared == Dispatch("selection:cleared")
OnMouseDown == Dispatch("mouse:down")
OnMouseUp == Dispatch("mouse:up")

\* the last event of a gesture has fired: the gesture is over
Settle ==
    /\ pending = <<>>
    /\ gesture # NoGesture
    /\ gesture' = NoGesture
    /\ toggled' = 0
    /\ UNCHANGED <<objectModes, controls, currentSelectedObject, justSelected,
                   previousSelectionCount, mouseDown, activeObject, members, listeners,
                   enabled, pending, cleaned>>
    /\ UNCHANGED <<runVars, pathVars, viewVars, callVars, tutVars>>

\* lines 561-582: each call attaches a handler set of its own
enableInkscapeTransformMode ==
    /\ settled
    /\ enabled < MaxEnable
    /\ enabled' = enabled + 1
    /\ listeners' = listeners \cup {enabled + 1}
    /\ cleaned' = FALSE
    /\ UNCHANGED <<objectModes, controls, currentSelectedObject, justSelected,
                   previousSelectionCount, mouseDown, activeObject, members, pending,
                   gesture, toggled>>
    /\ UNCHANGED <<runVars, pathVars, viewVars, callVars, tutVars>>

\* lines 584-591: the cleanup function of call k removes the handler set of
\* that call
cleanup(k) ==
    /\ settled
    /\ k \in 1..enabled
    /\ listeners' = listeners \ {k}
    /\ cleaned' = TRUE
    /\ UNCHANGED <<objectModes, controls, currentSelectedObject, justSelected,
                   previousSelectionCount, mouseDown, activeObject, members, enabled, pending,
                   gesture, toggled>>
    /\ UNCHANGED <<runVars, pathVars, viewVars, callVars, tutVars>>

\* the host sets the mode of the selected object by hand
Force(m) ==
    /\ settled
    /\ activeObject # "null"
    /\ objectModes' = m.objectModes
    /\ controls' = m.controls
    /\ UNCHANGED <<currentSelectedObject, justSelected, previousSelectionCount, mouseDown,
                   activeObject, members, listeners, enabled, pending, gesture, toggled,
                   cleaned>>
    /\ UNCHANGED <<runVars, pathVars, viewVars, callVars, tutVars>>

\* lines 599-602
forceScaleMode == Force(setScaleMode(Module, activeObject))

\* lines 609-612
forceRotateMode == Force(setRotateMode(Module, activeObject))

\* the user's plain clicks, on the objects of objs or on the empty canvas
Clicks(objs) ==
    \/ \E x \in objs, corner \in BOOLEAN, down \in Presses, up \in Pointers :
        \/ ClickSelected(x, corner, down, up)
        \/ ClickToSelect(x, corner, down, up)
    \/ \E down \in Presses : ClickEmpty(down)

\* the user's gestures that select several objects at once
MultiSelects(objs) ==
    \/ \E x \in objs, down \in Presses, upOnSelection \in BOOLEAN :
        \/ ShiftClickCreate(x, down)
        \/ ShiftClickAdd(x, down)
        \/ ShiftClickRemove(x, down, upOnSelection)
    \/ \E group \in SUBSET objs, upTarget \in objs \cup {"null"}, down \in Presses,
          up \in Pointers : Marquee(group, upTarget, down, up)

\* the canvas fires the events of the gesture under way
Dispatches ==
    \/ OnSelectionCreated
    \/ OnSelectionUpdated
    \/ OnSelectionCleared
    \/ OnMouseDown
    \/ OnMouseUp
    \/ Settle

\* the canvas as initCanvas leaves it: the transform mode enabled once
ModeStart == RunInit /\ PathIdle /\ ViewInit /\ CallsIdle /\ ModeLoaded(1) /\ TutorialIdle

ModeNext ==
    \/ Clicks(Objs)
    \/ MultiSelects(Objs)
    \/ Dispatches
    \/ forceScaleMode
    \/ forceRotateMode

\* the user at work on a canvas with the transform mode enabled
SpecMode == ModeStart /\ [][ModeNext]_vars

\* the objects the user works on while the host enables and disables
FewObjs == {"a", "b"}

ListenersNext ==
    \/ enableInkscapeTransformMode
    \/ \E k \in 1..MaxEnable : cleanup(k)
    \/ Clicks(FewObjs)
    \/ \E x \in FewObjs : SetActiveObject(x)
    \/ DiscardActiveObject
    \/ Dispatches

\* the host enabling and disabling the transform mode while the user works
SpecListeners == Init /\ [][ListenersNext]_vars


\* ================================================================== the lessons (tutorial.js)

lessonOneVars == <<tutorialStarted, tpc, tGroups, fetches, setups, early, tutorialCanvas,
                   movingHandlers>>
lessonTwoVars == <<spc, allowBoxSelection, toolbox, addedTools, tools, activeTools, isDragging,
                   completed, onObjectMovingOn, onMouseUpOn, collectedWith>>
otherVars == <<runVars, pathVars, viewVars, callVars, modeVars>>

\* a variant of line 8 that lets every call through
startTutorialNeverReturns(flag) == FALSE

\* tutorial.js 8: if (tutorialStarted) return;
startTutorialReturns(flag) == flag

\* the calls of startTutorial suspended at one of its awaits
awaiting == {c \in TutorialCalls : tpc[c] \in {"fetching", "loading"}}

\* tutorial.js 7-19: the call runs to its first await: it tests and sets the flag, then asks
\* for the fragments
startTutorial(c) ==
    /\ tpc[c] = "idle"
    /\ IF startTutorialReturns(tutorialStarted)
       THEN /\ tpc' = [tpc EXCEPT ![c] = "returned"]
            /\ early' = (early \/ awaiting # {})
            /\ UNCHANGED <<tutorialStarted, fetches>>
       ELSE /\ tutorialStarted' = TRUE
            /\ fetches' = fetches + 1
            /\ tpc' = [tpc EXCEPT ![c] = "fetching"]
            /\ UNCHANGED early
    /\ UNCHANGED <<tGroups, setups, tutorialCanvas, movingHandlers, nextButton, lessonTwoVars,
                   otherVars>>

\* tutorial.js 19: findGroupFragments settles; a rejection ends the call
fragmentsFound(c, resolved) ==
    /\ tpc[c] = "fetching"
    /\ tpc' = [tpc EXCEPT ![c] = IF resolved THEN "loading" ELSE "failed"]
    /\ UNCHANGED <<tutorialStarted, tGroups, fetches, setups, early, tutorialCanvas,
                   movingHandlers, nextButton, lessonTwoVars, otherVars>>

\* tutorial.js 46-99: Promise.all settles; the groups that were built are added to the canvas
\* and the object:moving handler is attached
setup(c, groups, resolved) ==
    /\ tpc[c] = "loading"
    /\ IF resolved
       THEN /\ tpc' = [tpc EXCEPT ![c] = "done"]
            /\ tGroups' = [tGroups EXCEPT ![c] = groups]
            /\ tutorialCanvas' = [f \in Frags |->
                                    tutorialCanvas[f] + (IF f \in groups THEN 1 ELSE 0)]
            /\ movingHandlers' = movingHandlers \cup {c}
            /\ setups' = setups + 1
       ELSE /\ tpc' = [tpc EXCEPT ![c] = "failed"]
            /\ UNCHANGED <<tGroups, tutorialCanvas, movingHandlers, setups>>
    /\ UNCHANGED <<tutorialStarted, fetches, early, nextButton, lessonTwoVars, otherVars>>

\* tutorial.js 99-145: the user drags the helmet of call c; within 15px of the target the
\* groups are replaced by the owl with helmet and the button is put into the panel
helmetMoving(c, near) ==
    /\ c \in movingHandlers
    /\ "Helmet" \in tGroups[c]
    /\ tutorialCanvas["Helmet"] > 0
    /\ IF "Helmet_Target" \in tGroups[c] /\ near
       THEN /\ tutorialCanvas' =
                   [f \in Frags |->
                      IF f \in tGroups[c] \cap {"Owl", "Helmet", "Helmet_Target"}
                      THEN tutorialCanvas[f] - 1 ELSE tutorialCanvas[f]]
            /\ nextButton' = (nextButton \/ "Owl_with_Helmet" \in tGroups[c])
       ELSE UNCHANGED <<tutorialCanvas, nextButton>>
    /\ UNCHANGED <<tutorialStarted, tpc, tGroups, fetches, setups, early, movingHandlers,
                   lessonTwoVars, otherVars>>

\* the toolbox as the canvas lays it out, and the pointers the user reaches
ToolboxRect == [left |-> 2, top |-> 1, width |-> 2, height |-> 1]
ToolboxPointers == {<<0, 0>>, <<2, 1>>, <<3, 2>>, <<4, 2>>, <<5, 2>>, <<4, 3>>}

\* a variant that takes every pointer for one over the toolbox
pointerAnywhere(e, hasToolbox, p) == e /\ hasToolbox

\* tutorial.js 243-250 pointerOverToolbox; e is FALSE for an event without opt.e
pointerOverToolbox(e, hasToolbox, p) ==
    IF ~e \/ ~hasToolbox THEN FALSE
    ELSE LET br == ToolboxRect
         IN  /\ p[1] >= br.left
             /\ p[1] <= br.left + br.width
             /\ p[2] >= br.top
             /\ p[2] <= br.top + br.height

\* tutorial.js 151-188: the button's onclick calls startSecondTutorial, which runs to its
\* first await: box selection off, the panel rewritten (the button goes with it)
startSecondTutorial ==
    /\ nextButton
    /\ allowBoxSelection' = FALSE
    /\ nextButton' = FALSE
    /\ spc' = "fetching"
    /\ UNCHANGED <<toolbox, addedTools, tools, activeTools, isDragging, completed,
                   onObjectMovingOn, onMouseUpOn, collectedWith, lessonOneVars, otherVars>>

\* tutorial.js 188-241, 408-409: the awaits settle; the toolbox and the tools that were built
\* are added and both handlers attached
toolsLoaded(groups, box, resolved) ==
    /\ spc = "fetching"
    /\ IF resolved
       THEN /\ spc' = "ready"
            /\ toolbox' = box
            /\ addedTools' = groups
            /\ tools' = groups
            /\ isDragging' = FALSE
            /\ completed' = FALSE
            /\ onObjectMovingOn' = TRUE
            /\ onMouseUpOn' = TRUE
       ELSE /\ spc' = "failed"
            /\ UNCHANGED <<toolbox, addedTools, tools, isDragging, completed, onObjectMovingOn,
                           onMouseUpOn>>
    /\ UNCHANGED <<allowBoxSelection, activeTools, collectedWith, nextButton, lessonOneVars,
                   otherVars>>

\* the user selects some of the tools on the canvas (or none)
selectTools(S) ==
    /\ spc = "ready"
    /\ S \subseteq tools
    /\ S # activeTools
    /\ activeTools' = S
    /\ UNCHANGED <<spc, allowBoxSelection, toolbox, addedTools, tools, isDragging, completed,
                   onObjectMovingOn, onMouseUpOn, collectedWith, nextButton, lessonOneVars,
                   otherVars>>

\* tutorial.js 263-266, 334-337 and 348-350, 399-402: the selected objects leave the canvas,
\* both handlers are detached, box selection is allowed again
collect(by, p) ==
    /\ tools' = tools \ activeTools
    /\ activeTools' = {}
    /\ onObjectMovingOn' = FALSE
    /\ onMouseUpOn' = FALSE
    /\ allowBoxSelection' = TRUE
    /\ collectedWith' = Append(collectedWith,
                               [by |-> by, n |-> Cardinality(activeTools),
                                total |-> Cardinality(addedTools), pointer |-> p,
                                toolbox |-> toolbox, attached |-> onObjectMovingOn /\ onMouseUpOn,
                                box |-> allowBoxSelection])

\* tutorial.js 252-340 onObjectMoving: the selection is dragged with the pointer at p
onObjectMoving(e, p) ==
    /\ onObjectMovingOn
    /\ activeTools # {}
    /\ IF completed
       THEN UNCHANGED <<isDragging, completed, tools, activeTools, onObjectMovingOn,
                        onMouseUpOn, allowBoxSelection, collectedWith>>
       ELSE /\ isDragging' = TRUE
            /\ IF /\ e
                  /\ Cardinality(activeTools) = Cardinality(addedTools)
                  /\ pointerOverToolbox(e, toolbox, p)
               THEN /\ completed' = TRUE
                    /\ collect("object:moving", p)
               ELSE UNCHANGED <<completed, tools, activeTools, onObjectMovingOn, onMouseUpOn,
                                allowBoxSelection, collectedWith>>
    /\ UNCHANGED <<spc, toolbox, addedTools, nextButton, lessonOneVars, otherVars>>

\* tutorial.js 342-405 onMouseUp: the button is released with the pointer at p
onMouseUp(e, p) ==
    /\ onMouseUpOn
    /\ isDragging' = FALSE
    /\ IF /\ isDragging
          /\ e
          /\ Cardinality(activeTools) = Cardinality(addedTools)
          /\ pointerOverToolbox(e, toolbox, p)
       THEN collect("mouse:up", p)
       ELSE UNCHANGED <<tools, activeTools, onObjectMovingOn, onMouseUpOn, allowBoxSelection,
                        collectedWith>>
    /\ UNCHANGED <<spc, toolbox, addedTools, completed, nextButton, lessonOneVars, otherVars>>

TutorialNext ==
    \/ \E c \in TutorialCalls : startTutorial(c)
    \/ \E c \in TutorialCalls, resolved \in BOOLEAN : fragmentsFound(c, resolved)
    \/ \E c \in TutorialCalls, groups \in SUBSET Frags, resolved \in BOOLEAN :
          setup(c, groups, resolved)
    \/ \E c \in TutorialCalls, near \in BOOLEAN : helmetMoving(c, near)
    \/ startSecondTutorial
    \/ \E groups \in SUBSET Tools, box \in BOOLEAN, resolved \in BOOLEAN :
          toolsLoaded(groups, box, resolved)
    \/ \E S \in SUBSET Tools : selectTools(S)
    \/ \E e \in BOOLEAN, p \in ToolboxPointers : onObjectMoving(e, p)
    \/ \E e \in BOOLEAN, p \in ToolboxPointers : onMouseUp(e, p)

SpecTutorial == Init /\ [][TutorialNext]_vars


\* ================================================================== claims
\* every unite call so far returned
AllSucceeded == \A k \in DOMAIN calls : calls[k].result # 0
\* the loop of lines 251-318 has run to its end
LoopFinished ==
    pc \in {"export", "preview", "confirm", "apply", "done"} /\ Len(selected) >= minSelection
\* the object yields an engine curve: it is supported and its import is not null
YieldsCurve(o) ==
    /\ normalizeKind(Canvas[o]) # "unsupported"
    /\ fabricPathToPaperPath(sourceObj(Canvas[o])) # NullPath
NoCurve(sel) == \A k \in DOMAIN sel : ~YieldsCurve(sel[k])

\* C1: when n >= 2 curves were imported and every unite returned, unite was
\* called exactly n-1 times, the k-th call on (acc, c_k) with acc the first
\* curve and then the previous result, and the curve handed to the exporter
\* is the last result.
C1_FoldLeft ==
    (LoopFinished /\ Len(curves) >= 2 /\ AllSucceeded) =>
        /\ Len(calls) = Len(curves) - 1
        /\ \A k \in DOMAIN calls :
            /\ calls[k].acc = (IF k = 1 THEN curves[1] ELSE calls[k - 1].result)
            /\ calls[k].next = curves[k + 1]
        /\ resultPaperPath = calls[Len(calls)].result
        /\ (exported # 0 => exported = calls[Len(calls)].result)

C1_Witness ==
    /\ pc = "preview"
    /\ Len(curves) = 3
    /\ Len(calls) = 2
    /\ AllSucceeded
    /\ exported = calls[2].result

\* C2: once a unite has thrown, no later unite is called and no result is
\* exported, previewed, returned or added to the canvas.
C2_FoldAborts ==
    \A k \in DOMAIN calls :
        calls[k].result = 0 =>
            /\ k = Len(calls)
            /\ pc \notin {"unite", "release", "export", "preview", "confirm", "apply"}
            /\ exported = 0
            /\ ~previewShown
            /\ ret # "out"

\* C3: after a unite that returned, both operands are removed before the
\* next shape is imported or united; a removed item is never handed to unite
\* or to the exporter; and while every unite returns at most three items
\* created by the call are unreleased.
C3_OperandsReleased ==
    /\ \A k \in DOMAIN calls :
        (calls[k].result # 0 /\ (k < Len(calls) \/ pc # "release")) =>
            {calls[k].acc, calls[k].next} \subseteq removed
    /\ \A k, j \in DOMAIN calls :
        (k < j /\ calls[k].result # 0) =>
            {calls[j].acc, calls[j].next} \cap {calls[k].acc, calls[k].next} = {}
    /\ (pc \in {"export", "preview", "confirm", "apply"} => resultPaperPath \notin removed)
    /\ (AllSucceeded => Cardinality(unreleased) <= 3)

\* the first two parts of C3 alone (they hold; the bound of three does not)
C3_ReleasePart ==
    /\ \A k \in DOMAIN calls :
        (calls[k].result # 0 /\ (k < Len(calls) \/ pc # "release")) =>
            {calls[k].acc, calls[k].next} \subseteq removed
    /\ \A k, j \in DOMAIN calls :
        (k < j /\ calls[k].result # 0) =>
            {calls[j].acc, calls[j].next} \cap {calls[k].acc, calls[k].next} = {}
    /\ (pc \in {"export", "preview", "confirm", "apply"} => resultPaperPath \notin removed)

\* C4: after the call returned from a run in which a unite threw, no engine
\* item created by the run is unreleased.
C4_ReleasedAfterFailure ==
    (pc = "done" /\ ~AllSucceeded) => unreleased = {}

\* C5: however the call returns once a final curve was handed to the
\* exporter, that curve has been removed.
C5_FinalCurveReleased ==
    (pc = "done" /\ exported # 0) => exported \in removed

SoleCurve ==
    LET k == CHOOSE j \in DOMAIN selected : YieldsCurve(selected[j])
    IN  fabricPathToPaperPath(sourceObj(Canvas[selected[k]]))

\* C7: when exactly one curve enters the fold, the fold result is that
\* curve, not removed and as imported, and unite is never called.
C7_SoleCurve ==
    (LoopFinished /\ Len(curves) = 1) =>
        /\ resultPaperPath = curves[1]
        /\ calls = <<>>
        /\ project[resultPaperPath] = SoleCurve
        /\ (pc \in {"export", "preview", "confirm", "apply"} => curves[1] \notin removed)

C7_Witness ==
    /\ pc = "export"
    /\ Len(selected) = 3
    /\ Len(curves) = 1
    /\ resultPaperPath = curves[1]

\* the C commands of a command sequence, in order
Cubics(path) == SelectSeq(path, LAMBDA cmd : cmd[1] = "C")
\* a MoveTo followed by CubicTo commands only, at least one
IsMoveCubics(path) ==
    /\ Len(path) >= 2
    /\ path[1][1] = "M"
    /\ \A k \in 2..Len(path) : path[k][1] = "C"
\* the exported commands with the returned offset added back
Unshifted(conv) ==
    [c \in 1..Len(conv.fabricPath) |-> shiftCommand(conv.fabricPath[c], -conv.tx, -conv.ty)]

\* C8: a MoveTo followed by CubicTo commands, under the identity transform,
\* imported and then exported, gives the same CubicTo commands once the
\* returned offset is added back.
C8_RoundTrip ==
    (step = "exported" /\ IsMoveCubics(shape.path) /\ shape.matrix = Identity) =>
        /\ ~result.isNull
        /\ Cubics(Unshifted(result)) = Cubics(shape.path)

\* the subpaths of an engine curve
Subpaths(curve) == IF curve.className = "Path" THEN <<curve>> ELSE curve.children
MoveTos(path) == Len(SelectSeq(path, LAMBDA cmd : cmd[1] = "M"))

\* the point a command ends at
EndPoint(cmd) == <<cmd[Len(cmd) - 1], cmd[Len(cmd)]>>
\* no command ends where the one before it ended
NoRepeat(path) ==
    \A k \in 2..Len(path) :
        (path[k][1] # "Z" /\ path[k - 1][1] # "Z") => EndPoint(path[k]) # EndPoint(path[k - 1])

\* C9: a command sequence starting with a MoveTo and holding k MoveTo
\* commands is imported as a curve of k subpaths, the anchors split at each
\* further MoveTo.
C9_SubpathsKept ==
    (step = "imported" /\ Len(shape.path) > 0 /\ shape.path[1][1] = "M" /\ NoRepeat(shape.path)) =>
        Len(Subpaths(paperPath)) = MoveTos(shape.path)

\* C10: importing a shape with no commands returns null and creates no
\* engine item.
C10_EmptyIsNull ==
    (step = "imported" /\ shape.path = <<>>) => paperPath = NullPath

\* a command as a LineTo to the point it ends at
AsLine(cmd) == <<"L", cmd[Len(cmd) - 1], cmd[Len(cmd)]>>
\* the shape with its first command taken as a LineTo
FirstAsLine(obj) ==
    [obj EXCEPT !.path = [k \in DOMAIN obj.path |-> IF k = 1 THEN AsLine(obj.path[1]) ELSE obj.path[k]]]

\* C11: a path whose first command is a CubicTo or a quadratic (no previous
\* anchor) is imported as the same path with that command taken as a LineTo
\* to its end point (taken here for the paths that go on with a LineTo).
C11_NoAnchorAsLine ==
    (/\ step = "imported"
     /\ Len(shape.path) > 1
     /\ shape.path[1][1] \in {"C", "Q"}
     /\ shape.path[2][1] = "L") =>
        paperPath = fabricPathToPaperPath(FirstAsLine(shape))

\* the anchor a command appended: the commands up to it that add an anchor
AnchorOf(path, k) == Cardinality({j \in 1..k : path[j][1] \in {"M", "L", "C", "Q"}})

CmdCount(item) ==
    IF Len(item.segments) = 0 THEN 0 ELSE Len(item.segments) + (IF item.closed THEN 1 ELSE 0)
\* the commands of the subpaths before the j-th
RECURSIVE CmdsBefore(_, _)
CmdsBefore(items, j) == IF j = 1 THEN 0 ELSE CmdsBefore(items, j - 1) + CmdCount(items[j - 1])

\* C13: for every consecutive anchor pair (prev, cur) of an exported subpath
\* the command is LineTo(cur.point) exactly when prev.handleOut and
\* cur.handleIn are both zero, and otherwise
\* CubicTo(prev.point + prev.handleOut, cur.point + cur.handleIn, cur.point).
C13_LineOrCubic ==
    (step = "exported" /\ ~result.isNull) =>
        LET items == exportItems(paperPath)
            U == Unshifted(result)
        IN  \A j \in DOMAIN items : \A k \in 2..Len(items[j].segments) :
                LET prev == items[j].segments[k - 1]
                    cur == items[j].segments[k]
                    cmd == U[CmdsBefore(items, j) + k]
                IN  IF isZero(prev.handleOut) /\ isZero(cur.handleIn)
                    THEN cmd = <<"L", cur.point[1], cur.point[2]>>
                    ELSE cmd = <<"C", prev.point[1] + prev.handleOut[1], prev.point[2] + prev.handleOut[2],
                                 cur.point[1] + cur.handleIn[1], cur.point[2] + cur.handleIn[2],
                                 cur.point[1], cur.point[2]>>

C13_Witness ==
    /\ step = "exported"
    /\ paperPath.className = "Path"
    /\ Len(paperPath.segments) = 3
    /\ ~isZero(paperPath.segments[1].handleOut)
    /\ isZero(paperPath.segments[2].handleIn)
    /\ isZero(paperPath.segments[2].handleOut)
    /\ isZero(paperPath.segments[3].handleIn)
    /\ result.fabricPath[2][1] = "C"
    /\ result.fabricPath[3][1] = "L"

\* C14: for a non-empty export the offset is the centre of the bounding box
\* of every coordinate pair of the emitted commands, every exported pair
\* plus the offset is the shared-space pair, the exported coordinates are
\* centred at (0,0), and ClosePath commands are passed through.
C14_Recentred ==
    (step = "exported" /\ ~result.isNull) =>
        LET items == exportItems(paperPath)
            fp == result.fabricPath
            U == Unshifted(result)
        IN  /\ SetMin(CoordsX(fp)) + SetMax(CoordsX(fp)) = 0
            /\ SetMin(CoordsY(fp)) + SetMax(CoordsY(fp)) = 0
            /\ 2 * result.tx = SetMin(CoordsX(U)) + SetMax(CoordsX(U))
            /\ 2 * result.ty = SetMin(CoordsY(U)) + SetMax(CoordsY(U))
            /\ \A j \in DOMAIN items :
                /\ \A k \in DOMAIN items[j].segments :
                    EndPoint(U[CmdsBefore(items, j) + k]) = items[j].segments[k].point
                /\ (items[j].closed /\ Len(items[j].segments) > 0) =>
                    fp[CmdsBefore(items, j) + CmdCount(items[j])] = <<"Z">>

C14_Witness ==
    /\ step = "exported"
    /\ paperPath.className = "Path"
    /\ paperPath.closed
    /\ Len(paperPath.segments) = 3
    /\ result.tx # 0
    /\ result.ty # 0
    /\ \A k \in 1..3 : paperPath.segments[k].point[2] < SetMax(CoordsY(Unshifted(result)))
    /\ \E k \in 1..3 : paperPath.segments[k].point[1] > SetMin(CoordsX(Unshifted(result)))
    /\ result.fabricPath[4] = <<"Z">>

\* every subpath of an engine curve, members of members included
RECURSIVE LeavesOf(_, _)
LeavesOf(items, k) ==
    IF k > Len(items) THEN <<>>
    ELSE (IF items[k].className = "Path" THEN <<items[k]>> ELSE LeavesOf(items[k].children, 1))
         \o LeavesOf(items, k + 1)
NonEmptySubpaths(curve) == SelectSeq(LeavesOf(<<curve>>, 1), LAMBDA sub : Len(sub.segments) > 0)

\* the commands exported are those of the subpaths subs: per subpath one
\* MoveTo at its first anchor, one command per further anchor, and a
\* ClosePath exactly when it is closed
ExportsSubpaths(subs) ==
    /\ ~result.isNull
    /\ MoveTos(result.fabricPath) = Len(subs)
    /\ Len(result.fabricPath) = CmdsBefore(subs, Len(subs) + 1)
    /\ \A j \in DOMAIN subs :
        LET at == CmdsBefore(subs, j)
            n == Len(subs[j].segments)
        IN  /\ Unshifted(result)[at + 1] = <<"M", subs[j].segments[1].point[1], subs[j].segments[1].point[2]>>
            /\ \A k \in 2..n : result.fabricPath[at + k][1] \in {"L", "C"}
            /\ subs[j].closed => result.fabricPath[at + n + 1] = <<"Z">>

C15_DirectSubpaths ==
    (/\ step = "exported"
     /\ NonEmptySubpaths(paperPath) # <<>>
     /\ \A k \in DOMAIN paperPath.children : paperPath.children[k].className = "Path") =>
        ExportsSubpaths(NonEmptySubpaths(paperPath))

\* C16: when the curve handed to the exporter has no subpath or only empty
\* subpaths the exporter returns null and the call returns no result: no
\* preview, no confirmation, the canvas object list as it was.
C16_EmptyExportNoResult ==
    (exported # 0 /\ NonEmptySubpaths(project[exported]) = <<>>) =>
        /\ converted.isNull
        /\ pc = "done"
        /\ ret = "null"
        /\ ~previewShown
        /\ ~confirmShown
        /\ objects = InitObjects

C16_Witness ==
    /\ pc = "done"
    /\ exported # 0
    /\ Len(calls) = 2
    /\ AllSucceeded
    /\ exported = calls[2].result
    /\ NonEmptySubpaths(project[exported]) = <<>>
    /\ ret = "null"

\* the offset of an origin keyword: 0 at the start, half at the centre, all
\* at the end
OriginOffset(origin, size) ==
    IF origin = "center" THEN size \div 2
    ELSE IF origin \in {"right", "bottom"} THEN size
    ELSE 0
\* the normalizer has made a path for prim
Normalized == step \in {"new", "imported", "exported"} /\ prim # NoShape

\* C17: a rectangle of width w and height h is normalized to
\* M(-ox,-oy) L(w-ox,-oy) L(w-ox,h-oy) L(-ox,h-oy) Z with ox, oy the offsets
\* of its origin; width 20, height 10, origin center gives
\* M(-10,-5) L(10,-5) L(10,5) L(-10,5) Z.
C17_RectPath ==
    (Normalized /\ prim.type = "rect") =>
        LET w == prim.width
            h == prim.height
            ox == OriginOffset(prim.originX, w)
            oy == OriginOffset(prim.originY, h)
        IN  /\ shape.path = << <<"M", -ox, -oy>>, <<"L", w - ox, -oy>>, <<"L", w - ox, h - oy>>,
                               <<"L", -ox, h - oy>>, <<"Z">> >>
            /\ (w = 20 * Px /\ h = 10 * Px /\ prim.originX = "center" /\ prim.originY = "center") =>
                shape.path = << <<"M", -10 * Px, -5 * Px>>, <<"L", 10 * Px, -5 * Px>>,
                                <<"L", 10 * Px, 5 * Px>>, <<"L", -10 * Px, 5 * Px>>, <<"Z">> >>

C17_Witness ==
    /\ step = "new"
    /\ prim.type = "rect"
    /\ prim.width = 20 * Px
    /\ prim.height = 10 * Px
    /\ prim.originX = "center"
    /\ prim.originY = "center"
    /\ shape.path[1] = <<"M", -10 * Px, -5 * Px>>
    /\ shape.path[5] = <<"Z">>

\* C18: a point list p0..pn is normalized to M(p0) L(p1) ... L(pn) in that
\* order, followed by ClosePath exactly when the primitive is a polygon.
C18_PointListPath ==
    (Normalized /\ prim.hasPoints /\ Len(prim.points) > 0) =>
        LET n == Len(prim.points)
        IN  /\ Len(shape.path) = n + (IF prim.type = "polygon" THEN 1 ELSE 0)
            /\ \A k \in 1..n :
                shape.path[k] = <<(IF k = 1 THEN "M" ELSE "L"), prim.points[k][1], prim.points[k][2]>>
            /\ prim.type = "polygon" => shape.path[n + 1] = <<"Z">>

C18_Witness ==
    /\ step = "new"
    /\ prim.type = "polyline"
    /\ Len(prim.points) = 3
    /\ prim.points[1] # prim.points[2]
    /\ Len(shape.path) = 3
    /\ shape.path[3][1] = "L"

\* the object has path commands, has a point list or is of rectangle type
Convertible(o) == Canvas[o].pathKind # "none" \/ Canvas[o].hasPoints \/ Canvas[o].type = "rect"

\* C19: an object with no path commands, no point list and a type other
\* than rectangle contributes no curve: the curves imported are at most as
\* many as the selected objects that have one of the three.
C19_UnsupportedRejected ==
    Len(curves) <= Cardinality({k \in DOMAIN selected : Convertible(selected[k])})

\* C20: after every call that reached the engine, the engine's view matrix
\* is the host's viewport transform as it was at that call, each component
\* times the retina scaling.
C20_ViewFollowsHost ==
    paperScope => viewMatrix = [k \in 1..6 |-> viewAtCall[k] * retinaScaling]

\* the canvas objects that were there before the call and are not selected
Bystander(x) == x \in ObjIds /\ \A k \in DOMAIN selected : selected[k] # x
\* how many of them come before position k of the object list objs
BystandersBefore(objs, k) == Cardinality({j \in 1..(k - 1) : Bystander(objs[j])})

\* C21: when the result was applied, no selected shape is on the canvas, the
\* result stands where the first selected shape stood in the draw order, and
\* the non-selected objects are all there in their original order.
C21_ReplacedInPlace ==
    (pc = "done" /\ ret = "out") =>
        /\ \A k \in DOMAIN selected : \A j \in DOMAIN objects : objects[j] # selected[k]
        /\ SelectSeq(objects, Bystander) = SelectSeq(InitObjects, Bystander)
        /\ \E k \in DOMAIN objects :
            /\ objects[k] = "out"
            /\ BystandersBefore(objects, k) = BystandersBefore(InitObjects, indexOf(InitObjects, selected[1]) + 1)

\* C22: when the user declined, the call returns null and the canvas object
\* list is what it was before the call: the originals in place, no result,
\* no preview.
C22_DeclineRestores ==
    (pc = "done" /\ confirmShown /\ ret # "out") =>
        /\ ret = "null"
        /\ objects = InitObjects

\* C23: the result has the fill, stroke, strokeWidth and opacity of the first
\* selected shape, also when that shape gave no curve.
C23_StyleOfFirst ==
    (pc \in {"preview", "confirm", "apply"} \/ ret = "out") =>
        LET src == Canvas[selected[1]].style
        IN  /\ out.fill = src.fill
            /\ out.stroke = src.stroke
            /\ out.strokeWidth = src.strokeWidth
            /\ out.opacity = src.opacity

C23_Witness ==
    /\ pc = "done"
    /\ ret = "out"
    /\ ~YieldsCurve(selected[1])
    /\ Len(curves) = 2
    /\ out.fill = Canvas[selected[1]].style.fill
    /\ out.opacity = Canvas[selected[1]].style.opacity
    /\ out.opacity # Canvas[selected[2]].style.opacity

Running == {c \in Invocations : callPc[c] \notin {"idle", "done"}}

\* C25: a call runs from its start to its return with no other call in
\* between: at most one invocation is under way, a preview on the canvas is
\* that of the invocation under way, and an invocation only ever takes away
\* its own preview.
C25_NoInterleaving ==
    /\ Cardinality(Running) <= 1
    /\ Running \subseteq {thread}
    /\ previewOf # "none" => (callPc[previewOf] = "confirm" /\ thread = previewOf)
    /\ \A pair \in observed : pair[1] = pair[2]

C25_Witness ==
    /\ callRet["u1"] = "out"
    /\ callRet["u2"] = "null"
    /\ callPc["u3"] = "confirm"
    /\ previewOf = "u3"
    /\ Cardinality(observed) = 2

\* the gesture under way has fired its last event, with handlers attached
Completed(kind) == pending = <<>> /\ gesture.kind = kind /\ listeners # {}

\* C26: when a click on an object has selected it out of nothing
\* (selection:created, then the mouse:down and mouse:up of the click), the
\* object is in scale mode, whatever mode was stored for it before, it is the
\* tracked object, and toggleMode was not called during the click.
C26_SelectingClickScales ==
    (Completed("click") /\ gesture.event = "selection:created") =>
        /\ objectModes[gesture.target] = "scale"
        /\ currentSelectedObject = gesture.target
        /\ toggled = 0

C26_Witness ==
    /\ Completed("click")
    /\ gesture.event = "selection:created"
    /\ gesture.before = "rotate"
    /\ objectModes[gesture.target] = "scale"
    /\ ~justSelected

\* the mode a toggle leaves an object in that had mode before stored
Toggled(before) == IF before = "rotate" THEN "scale" ELSE "rotate"

\* a click without drag on the body of the selection, selected before the
\* click, has completed
ClickedSelection ==
    /\ Completed("click")
    /\ gesture.event = "none"
    /\ ~gesture.drag
    /\ ~gesture.corner

\* C27: every click without drag on the selection, once it is selected,
\* toggles its mode: toggleMode is called once, and the mode is the other
\* one than before the click.
C27_EveryClickToggles ==
    ClickedSelection =>
        /\ toggled = 1
        /\ objectModes[gesture.target] = Toggled(gesture.before)

\* C28: an object in rotate mode shows its four corner handles and its
\* rotation handle (mtr), and hides its four edge handles.
C28_RotateModeHandles ==
    \A o \in Selectables :
        objectModes[o] = "rotate" =>
            /\ Corners \cup {"mtr"} \subseteq controls[o]
            /\ controls[o] \cap Edges = {}

\* C29: once a cleanup function has been called, no event the canvas fires
\* changes the mode of any object or the tracking state of the module.
C29_CleanupSilences ==
    [][(cleaned /\ pending # <<>> /\ pending' = Tail(pending)) =>
          UNCHANGED <<objectModes, currentSelectedObject, justSelected,
                      previousSelectionCount>>]_vars

\* C30: when a click on an object has made it the single active object in
\* place of another selection (selection:updated), and the object was not
\* the tracked one, the object is in scale mode, it is the tracked object,
\* and toggleMode was not called during the click.
C30_NewSingleObjectScales ==
    (Completed("click") /\ gesture.event = "selection:updated"
        /\ gesture.tracked # gesture.target) =>
        /\ objectModes[gesture.target] = "scale"
        /\ currentSelectedObject = gesture.target
        /\ toggled = 0

C30_Witness ==
    /\ Completed("click")
    /\ gesture.event = "selection:updated"
    /\ isActiveSelection(gesture.tracked)
    /\ gesture.before = "rotate"
    /\ ~gesture.drag
    /\ ~gesture.corner
    /\ objectModes[gesture.target] = "scale"
    /\ activeObject = gesture.target

\* C31: a shift-click that adds an object to a multi-object selection or
\* removes one from it leaves the resulting selection, be it a single
\* remaining object, in the mode the selection had before; a multi-object
\* selection made out of a single object or by a marquee is in scale mode.
C31_ModifiedSelectionKeepsMode ==
    /\ (Completed("shift") /\ isActiveSelection(gesture.was)) =>
            objectModes[activeObject] = gesture.mode
    /\ (Completed("shift") /\ ~isActiveSelection(gesture.was)) =>
            objectModes[activeObject] = "scale"
    /\ (Completed("marquee") /\ isActiveSelection(activeObject)) =>
            objectModes[activeObject] = "scale"

C31_Witness ==
    /\ Completed("shift")
    /\ isActiveSelection(gesture.was)
    /\ gesture.mode = "rotate"
    /\ activeObject \in Objs
    /\ gesture.before = "scale"
    /\ objectModes[activeObject] = "rotate"

\* C32: a click whose pointer went further than the drag threshold, in x
\* or in y, between mouse:down and mouse:up leaves the mode of the selected
\* object as it was, and toggleMode is only ever called in a click whose
\* pointer stayed within the threshold both ways.
C32_DragKeepsMode ==
    /\ (Completed("click") /\ gesture.drag) =>
            /\ toggled = 0
            /\ gesture.event = "none" => objectModes[gesture.target] = gesture.before
    /\ (pending = <<>> /\ toggled > 0) => (gesture.kind = "click" /\ ~gesture.drag)

C32_Witness ==
    /\ Completed("click")
    /\ gesture.drag
    /\ gesture.event = "none"
    /\ ~gesture.corner
    /\ ~gesture.flag
    /\ gesture.tracked = gesture.target
    /\ gesture.before = "rotate"
    /\ objectModes[gesture.target] = "rotate"
    /\ mouseDown[gesture.target] = <<>>

\* the canvas fires an event of one of the types, with handlers attached
Fires(types) ==
    /\ pending # <<>>
    /\ pending' = Tail(pending)
    /\ Head(pending).type \in types
    /\ listeners # {}

\* C33: selection:cleared leaves the tracked object null, justSelected false
\* and the tracked count 0, and the stored mode of every object as it was;
\* while no object is tracked, no mouse:down and no mouse:up calls toggleMode
\* or changes a stored mode.
C33_ClearedResets ==
    [][/\ Fires({"selection:cleared"}) =>
            /\ currentSelectedObject' = "null"
            /\ ~justSelected'
            /\ previousSelectionCount' = 0
            /\ toggled' = toggled
            /\ \A o \in Objs : objectModes'[o] = objectModes[o]
       /\ (Fires({"mouse:down", "mouse:up"}) /\ currentSelectedObject = "null") =>
            /\ toggled' = toggled
            /\ currentSelectedObject' = "null"
            /\ \A o \in Objs : objectModes'[o] = objectModes[o]]_vars

C33_Witness ==
    /\ Completed("empty")
    /\ gesture.event = "selection:cleared"
    /\ gesture.flag
    /\ gesture.mode = "rotate"
    /\ gesture.was \in Objs
    /\ objectModes[gesture.was] = "rotate"
    /\ currentSelectedObject = "null"
    /\ ~justSelected
    /\ previousSelectionCount = 0

\* toggleMode is only called in a click whose mouse:down was on the body of
\* the active object, not on one of its controls
ToggleOnlyByBodyClick ==
    (pending = <<>> /\ toggled > 0) => (gesture.kind = "click" /\ ~gesture.corner)

\* a justSelected flag that was set before the click began does not keep a
\* click without drag on the body of the tracked selection from toggling
FlagLeftDecidesNothing ==
    (ClickedSelection /\ gesture.flag /\ gesture.tracked = gesture.target) => toggled = 1

\* C34: a mouse:up toggles the mode only if the mouse:down of the same click
\* was on the active object and not on a control handle, and what an earlier
\* gesture left behind (mouse-down coordinates, the justSelected flag) does
\* not decide whether a later click toggles.
C34_OnlyThisClickDecides == ToggleOnlyByBodyClick /\ FlagLeftDecidesNothing

\* C35: when a result has been applied, every selected shape gave one of
\* the curves it is built from, so no shape that was skipped is among the
\* shapes removed, and the curves were at least two.
C35_AppliedFromAllSelected ==
    (pc = "done" /\ ret = "out") =>
        /\ \A k \in DOMAIN selected : YieldsCurve(selected[k])
        /\ Len(curves) = Len(selected)
        /\ Len(curves) >= minSelection

\* C36: once the call has returned, the canvas holds no preview object and
\* canvas._booleanPreview is unset.
C36_NoPreviewLeft ==
    pc = "done" =>
        /\ ~booleanPreview
        /\ \A k \in DOMAIN objects : objects[k] # "preview"

\* C37: however often startTutorial is called, and whenever (also while the first call is
\* still awaiting its assets), the fragments are fetched at most once, the groups are added
\* and the object:moving handler attached at most once, and every call but the first
\* returns at its first line
C37_SetupAtMostOnce ==
    /\ fetches <= 1
    /\ setups <= 1
    /\ Cardinality(movingHandlers) <= 1
    /\ \A f \in Frags : tutorialCanvas[f] <= 1
    /\ Cardinality({c \in TutorialCalls : tpc[c] \notin {"idle", "returned"}}) <= 1

\* one call finished its setup, the others returned, one of them during an await of the first
C37_Witness ==
    /\ setups = 1
    /\ early
    /\ \E c \in TutorialCalls :
          /\ tpc[c] = "done"
          /\ tGroups[c] = Frags
          /\ \A d \in TutorialCalls \ {c} : tpc[d] = "returned"

\* C38: in the second lesson the tools leave the canvas only when the active selection holds
\* as many objects as tools were added and the pointer lies in the toolbox's bounding
\* rectangle; that happens at most once, afterwards both handlers are detached and box
\* selection is allowed, and from the start of the lesson until then it is not allowed
C38_CollectedOnce ==
    /\ Len(collectedWith) <= 1
    /\ \A k \in DOMAIN collectedWith :
          /\ collectedWith[k].n = collectedWith[k].total
          /\ collectedWith[k].toolbox
          /\ collectedWith[k].pointer[1] \in ToolboxRect.left .. ToolboxRect.left + ToolboxRect.width
          /\ collectedWith[k].pointer[2] \in ToolboxRect.top .. ToolboxRect.top + ToolboxRect.height
    /\ collectedWith # <<>> => ~onObjectMovingOn /\ ~onMouseUpOn /\ allowBoxSelection
    /\ (spc # "idle" /\ collectedWith = <<>>) => ~allowBoxSelection

\* all five tools were selected and collected when the button was released over the toolbox
C38_Witness ==
    /\ Len(collectedWith) = 1
    /\ collectedWith[1].by = "mouse:up"
    /\ collectedWith[1].n = Cardinality(Tools)
    /\ tools = {}
    /\ allowBoxSelection

====
